---- MODULE Spec2Model ----
(***************************************************************************)
(* A model of ccfx: the chunked parallel downloader (ccfx.py downloadFile  *)
(* and downloadChunk), the sqlite helper class (sqliteConnection.py), the  *)
(* file helpers listFiles and deleteFile, the path helpers (createPath,    *)
(* deletePath, writeTo, the copy and move functions), the MP3 tag helpers, *)
(* calculateTimeseriesStats, createGrid and renameNetCDFvariable (ccfx.py).*)
(*                                                                         *)
(* The specifications share the variables: SpecDownload, SpecDb, SpecFs,   *)
(* SpecTree, SpecMp3, SpecStats, SpecGrid and SpecNc.  Each one moves only *)
(* its own group of variables and leaves the other groups at their idle    *)
(* values.                                                                 *)
(***************************************************************************)
EXTENDS Integers, Sequences, FiniteSets, TLC

VARIABLES
    \* ---- downloadFile / downloadChunk ----
    pc,               \* position of the main thread inside downloadFile
    exists_action,    \* argument: "skip", "overwrite", "resume" or any other string
    num_connections,  \* argument
    file_size,        \* the content-length the HEAD request reported
    fname,            \* getFileBaseName(url): last segment of the URL
    files,            \* the files of save_dir, by base name
    parts,            \* the files "<save_fname>.part<i>", by i
    chunks,           \* the (start, end) byte ranges, one per connection
    initial_pos,      \* the resume offset
    completed,        \* the polling loop's running total
    wpc,              \* position of each pool worker inside downloadChunk
    body,             \* per worker: response bytes not yet written
    headCount,        \* HEAD requests issued so far
    getCount,         \* ranged GET requests issued so far
    \* ---- sqliteConnection ----
    conn,             \* self.connection: "open" or "closed"
    view,             \* the database as self.connection sees it
    committed,        \* the database as last committed to the file
    inTxn,            \* self.connection has an open transaction
    defaults,         \* insertRow's default argument objects, made at 'def'
    \* ---- listFiles / deleteFile ----
    entries,          \* the entries of the directory, by name
    \* ---- createPath, deletePath, writeTo, copy and move helpers ----
    tree,             \* the directory tree under the working directory
    calls,            \* path helper calls made so far
    \* ---- setMp3Metadata / getMp3Metadata ----
    tags,             \* the ID3 frames of the mp3 file, by frame id
    \* ---- createGrid, renameNetCDFvariable ----
    gridFiles,        \* the two grid files of the working directory, by name
    ncFiles,          \* the NetCDF files at input_file and output_file
    \* ---- the call log ----
    lastOp            \* the last helper call: its name, arguments and outcome

dlVars == <<pc, exists_action, num_connections, file_size, fname, files, parts,
            chunks, initial_pos, completed, wpc, body, headCount, getCount>>

dbVars == <<conn, view, committed, inTxn, defaults>>

fsVars == <<entries>>

treeVars == <<tree, calls>>

mp3Vars == <<tags>>

geoVars == <<gridFiles, ncFiles>>

notDlVars == <<dbVars, fsVars, treeVars, mp3Vars, geoVars, lastOp>>
notDbVars == <<dlVars, fsVars, treeVars, mp3Vars, geoVars>>
notFsVars == <<dlVars, dbVars, treeVars, mp3Vars, geoVars>>
notTreeVars == <<dlVars, dbVars, fsVars, mp3Vars, geoVars>>
notMp3Vars == <<dlVars, dbVars, fsVars, treeVars, geoVars>>
notLogVars == <<dlVars, dbVars, fsVars, treeVars, mp3Vars, geoVars>>
notGeoVars == <<dlVars, dbVars, fsVars, treeVars, mp3Vars>>

vars == <<dlVars, dbVars, fsVars, treeVars, mp3Vars, geoVars, lastOp>>

----------------------------------------------------------------------------
(* Bounds of the model *)

MaxLen == 4          \* largest server-reported content length
MaxConn == 3         \* largest num_connections
MaxOld == 2          \* largest size of a destination file found on disk
IterChunkSize == 2   \* bytes per iter_content piece (8192 in the code, scaled)
MaxRows == 2         \* most rows the table holds
MaxDepth == 3        \* deepest node of the directory tree
MaxCalls == 2        \* most path helper calls in one run
MaxSeries == 3       \* longest observed / simulated series
MantissaBits == 3    \* significant bits of a floating-point number (53, scaled)
MaxExtent == 2       \* widest and tallest boundary, in degrees
UnitsPerDegree == 2  \* units of the projected CRS in one degree (scaled)
MaxVars == 2         \* most variables of a NetCDF file

----------------------------------------------------------------------------
(* Files: a file is a record; an absent path has exists = FALSE *)

Absent == [exists |-> FALSE, data |-> <<>>]
File(bytes) == [exists |-> TRUE, data |-> bytes]

\* the byte at offset k of the remote resource is k itself
Content(L) == [k \in 1..L |-> k - 1]
\* bytes of a destination file left by an earlier run
OldBytes(p) == [k \in 1..p |-> 100 + k]
\* bytes of a part file left by an earlier, interrupted run
StaleBytes(p) == [k \in 1..p |-> 200 + k]

Min(a, b) == IF a < b THEN a ELSE b

\* math.ceil(a / b) for a >= 0, b >= 1
Ceil(a, b) == (a + b - 1) \div b

Workers == 0..(MaxConn - 1)

\* the base name of save_path; the URL's last segment is SaveBase or OtherBase
SaveBase == "a"
OtherBase == "b"
BaseNames == {SaveBase, OtherBase}

----------------------------------------------------------------------------
(* downloadFile, lines 345-351: the byte range of connection i (0-based) *)

ChunkSize(L, p, n) == Ceil(L - p, n)

ChunkStart(L, p, n, i) == p + (i * ChunkSize(L, p, n))

ChunkEnd(L, p, n, i) == Min(ChunkStart(L, p, n, i) + ChunkSize(L, p, n) - 1, L - 1)

Chunks(L, p, n) ==
    [i \in 1..n |-> [start |-> ChunkStart(L, p, n, i - 1),
                     end   |-> ChunkEnd(L, p, n, i - 1)]]

(* The server's answers to "Range: bytes=start-end" on a resource of L     *)
(* bytes.  A satisfiable range is honoured.  A range whose last byte is    *)
(* before its first is not a valid range: a server either ignores the      *)
(* header and sends the whole resource (200) or refuses (416) with an      *)
(* empty body.  downloadChunk writes the body whatever the status is.      *)
RangeResponses(L, start, end) ==
    IF start <= end /\ start < L
    THEN {SubSeq(Content(L), start + 1, Min(end, L - 1) + 1)}
    ELSE {<<>>, Content(L)}

\* sum(os.path.getsize(f) for f in temp_files if os.path.exists(f))
RECURSIVE SumSizes(_, _)
SumSizes(ps, n) ==
    IF n = 0 THEN 0
    ELSE SumSizes(ps, n - 1)
         + (IF ps[n - 1].exists THEN Len(ps[n - 1].data) ELSE 0)

\* the merge loop of lines 373-377 over temp_files[i..n-1], writing to out
RECURSIVE MergeFrom(_, _, _, _)
MergeFrom(out, ps, i, n) ==
    IF i >= n THEN out
    ELSE MergeFrom(IF ps[i].exists THEN out \o ps[i].data ELSE out, ps, i + 1, n)

\* a faulty variant: the destination is always opened in append mode
OpenForMergeAlwaysAppend(f, p) == IF f.exists THEN f.data ELSE <<>>

\* open(save_fname, 'ab' if initial_pos > 0 else 'wb'): what the file holds
\* right after it is opened
OpenForMerge(f, p) == IF p > 0 /\ f.exists THEN f.data ELSE <<>>

MergedFile(f, ps, p, n) == File(MergeFrom(OpenForMerge(f, p), ps, 0, n))

\* os.remove(temp_file) for every temp file that exists
PartsAfterMerge(ps, n) ==
    [i \in Workers |-> IF i < n THEN Absent ELSE ps[i]]

----------------------------------------------------------------------------
(* SpecDownload: one call of downloadFile *)

NoOp == [name |-> "none"]

\* the sqlite helper while no specification uses it
DbIdle ==
    /\ conn = "closed"
    /\ view = <<>>
    /\ committed = <<>>
    /\ inTxn = FALSE
    /\ defaults = <<>>

\* exists_action is an unchecked string: "other" stands for every value that
\* is none of the three the code compares it with
Policies == {"skip", "overwrite", "resume", "other"}

\* the directory while no specification uses it
FsIdle == entries = <<>>

\* the directory tree while no specification uses it
TreeIdle == tree = <<>> /\ calls = 0

\* the mp3 file while no specification uses it
Mp3Idle == tags = <<>>

\* the grid files and the NetCDF files while no specification uses them
GeoIdle == gridFiles = <<>> /\ ncFiles = <<>>

\* downloadFile while no specification uses it
DlIdle ==
    /\ pc = "idle"
    /\ exists_action = "resume"
    /\ num_connections = 1
    /\ file_size = 0
    /\ fname = SaveBase
    /\ files = <<>>
    /\ parts = <<>>
    /\ chunks = <<>>
    /\ initial_pos = 0
    /\ completed = 0
    /\ wpc = <<>>
    /\ body = <<>>
    /\ headCount = 0
    /\ getCount = 0

OldChoices == {Absent} \cup {File(OldBytes(p)) : p \in 0..MaxOld}

InitDownload ==
    /\ pc = "call"
    /\ exists_action \in Policies
    /\ num_connections \in 1..MaxConn
    /\ file_size \in 1..MaxLen
    /\ fname \in BaseNames
    /\ \E target \in OldChoices, other \in {Absent, File(OldBytes(1))} :
          files = [b \in BaseNames |-> IF b = fname THEN target ELSE other]
    /\ \E stale \in {Absent, File(StaleBytes(MaxLen))} :
          parts = [i \in Workers |-> IF i = 0 THEN stale ELSE Absent]
    /\ chunks = <<>>
    /\ initial_pos = 0
    /\ completed = 0
    /\ wpc = [i \in Workers |-> "none"]
    /\ body = [i \in Workers |-> <<>>]
    /\ headCount = 0
    /\ getCount = 0
    /\ DbIdle
    /\ FsIdle
    /\ TreeIdle
    /\ Mp3Idle
    /\ GeoIdle
    /\ lastOp = NoOp

\* a faulty variant: the 'skip' policy is never recognised
SkipReturnsNever(fs, name, action) == FALSE

\* lines 323-327: the destination exists and the policy is 'skip'
SkipReturns(fs, name, action) == fs[name].exists /\ action = "skip"

\* lines 312-327: downloadFile returns at once
downloadFile_skip ==
    /\ pc = "call"
    /\ SkipReturns(files, fname, exists_action)
    /\ pc' = "skipped"
    /\ UNCHANGED <<exists_action, num_connections, file_size, fname, files,
                   parts, chunks, initial_pos, completed, wpc, body,
                   headCount, getCount,
                   notDlVars>>

\* lines 328-329: os.remove(save_fname) under 'overwrite'
AfterExistsCheck(fs, name, action) ==
    IF fs[name].exists /\ action = "overwrite"
    THEN [fs EXCEPT ![name] = Absent]
    ELSE fs

\* lines 337-339: the resume offset
InitialPos(fs, name, action) ==
    IF action = "resume" /\ fs[name].exists THEN Len(fs[name].data) ELSE 0

\* lines 340-343: the HEAD request, then the file is found complete
downloadFile_complete ==
    /\ pc = "call"
    /\ ~SkipReturns(files, fname, exists_action)
    /\ LET fs == AfterExistsCheck(files, fname, exists_action)
           p  == InitialPos(fs, fname, exists_action)
       IN /\ exists_action = "resume" /\ fs[fname].exists /\ p >= file_size
          /\ files' = fs
          /\ initial_pos' = p
    /\ headCount' = headCount + 1
    /\ pc' = "complete"
    /\ UNCHANGED <<exists_action, num_connections, file_size, fname,
                   parts, chunks, completed, wpc, body, getCount,
                   notDlVars>>

\* lines 328-365: remove under 'overwrite', HEAD, resume offset, the chunks,
\* one task per chunk submitted to the pool, the polling loop entered
downloadFile_start ==
    /\ pc = "call"
    /\ ~SkipReturns(files, fname, exists_action)
    /\ LET fs == AfterExistsCheck(files, fname, exists_action)
           p  == InitialPos(fs, fname, exists_action)
       IN /\ ~(exists_action = "resume" /\ fs[fname].exists /\ p >= file_size)
          /\ files' = fs
          /\ initial_pos' = p
          /\ chunks' = Chunks(file_size, p, num_connections)
          /\ completed' = p
    /\ headCount' = headCount + 1
    /\ wpc' = [i \in Workers |-> IF i < num_connections THEN "queued" ELSE "none"]
    /\ pc' = "poll"
    /\ UNCHANGED <<exists_action, num_connections, file_size, fname, parts,
                   body, getCount,
                   notDlVars>>

\* downloadChunk, lines 305-306: the ranged GET and the server's answer
downloadChunk_get(i) ==
    /\ wpc[i] = "queued"
    /\ \E resp \in RangeResponses(file_size, chunks[i + 1].start, chunks[i + 1].end) :
          body' = [body EXCEPT ![i] = resp]
    /\ getCount' = getCount + 1
    /\ wpc' = [wpc EXCEPT ![i] = "open"]
    /\ UNCHANGED <<pc, exists_action, num_connections, file_size, fname, files,
                   parts, chunks, initial_pos, completed, headCount,
                   notDlVars>>

\* downloadChunk, line 307: open(path, 'wb') creates or truncates part i
downloadChunk_open(i) ==
    /\ wpc[i] = "open"
    /\ parts' = [parts EXCEPT ![i] = File(<<>>)]
    /\ wpc' = [wpc EXCEPT ![i] = IF body[i] = <<>> THEN "done" ELSE "write"]
    /\ UNCHANGED <<pc, exists_action, num_connections, file_size, fname, files,
                   chunks, initial_pos, completed, body, headCount, getCount,
                   notDlVars>>

\* downloadChunk, lines 308-310: one piece of the body written to part i
downloadChunk_write(i) ==
    /\ wpc[i] = "write"
    /\ LET k == Min(IterChunkSize, Len(body[i]))
           rest == SubSeq(body[i], k + 1, Len(body[i]))
       IN /\ parts' = [parts EXCEPT ![i] = File(@.data \o SubSeq(body[i], 1, k))]
          /\ body' = [body EXCEPT ![i] = rest]
          /\ wpc' = [wpc EXCEPT ![i] = IF rest = <<>> THEN "done" ELSE "write"]
    /\ UNCHANGED <<pc, exists_action, num_connections, file_size, fname, files,
                   chunks, initial_pos, completed, headCount, getCount,
                   notDlVars>>

\* line 368: the increment handed to pbar.update, current - completed
PbarUpdate(ps, n, done) == SumSizes(ps, n) - done

\* lines 366-369: one turn of the polling loop
Poll ==
    /\ pc = "poll"
    /\ completed < file_size
    /\ completed' = completed + PbarUpdate(parts, num_connections, completed)
    /\ UNCHANGED <<pc, exists_action, num_connections, file_size, fname, files,
                   parts, chunks, initial_pos, wpc, body, headCount, getCount,
                   notDlVars>>

\* line 366: the loop condition fails; the executor's exit then waits
PollExit ==
    /\ pc = "poll"
    /\ completed >= file_size
    /\ pc' = "join"
    /\ UNCHANGED <<exists_action, num_connections, file_size, fname, files,
                   parts, chunks, initial_pos, completed, wpc, body,
                   headCount, getCount,
                   notDlVars>>

\* a faulty variant: the executor's exit does not wait for the workers
AllWorkersDoneUnchecked == TRUE

\* line 355: leaving the 'with ThreadPoolExecutor' block waits for every task
AllWorkersDone == \A i \in Workers : i < num_connections => wpc[i] = "done"

\* lines 355 (with-exit: shutdown(wait=True)) and 371-377: the merge
Merge ==
    /\ pc = "join"
    /\ AllWorkersDone
    /\ files' = [files EXCEPT
                   ![fname] = MergedFile(files[fname], parts, initial_pos, num_connections)]
    /\ parts' = PartsAfterMerge(parts, num_connections)
    /\ pc' = "merged"
    /\ UNCHANGED <<exists_action, num_connections, file_size, fname, chunks,
                   initial_pos, completed, wpc, body, headCount, getCount,
                   notDlVars>>

NextDownload ==
    \/ downloadFile_skip
    \/ downloadFile_complete
    \/ downloadFile_start
    \/ \E i \in Workers : downloadChunk_get(i)
    \/ \E i \in Workers : downloadChunk_open(i)
    \/ \E i \in Workers : downloadChunk_write(i)
    \/ Poll
    \/ PollExit
    \/ Merge

SpecDownload == InitDownload /\ [][NextDownload]_vars

----------------------------------------------------------------------------
(* sqliteConnection: the database behind one helper instance               *)
(*                                                                         *)
(* The helper names one table.  A database is a record: whether the table  *)
(* exists, its columns in order (name and declared type) and its rows, in  *)
(* rowid order, each a tuple of values in column order.                    *)
(*                                                                         *)
(* Values are written as strings: "null" is None / NULL, "i1" and "i2" are *)
(* the integers 1 and 2, "t1" and "t2" are the texts '1' and '2', "ta" is  *)
(* the text 'a'.  The field 'other' tells whether a table exists under the *)
(* second table name, the one renameTable moves the helper's table to; no  *)
(* call reads that table, and its content is not kept.                     *)

NoTable == [exists |-> FALSE, schema |-> <<>>, rows |-> <<>>, other |-> FALSE]

\* DROP TABLE: the helper's table is gone
Dropped(db) == [db EXCEPT !.exists = FALSE, !.schema = <<>>, !.rows = <<>>]

\* columns_with_types = {id: INTEGER, name: TEXT}, in the mapping's order
Schema1 == <<[name |-> "id", type |-> "INTEGER"], [name |-> "name", type |-> "TEXT"]>>

SchemaChoices == {Schema1}

ColNames(schema) == {schema[j].name : j \in 1..Len(schema)}

ColIndex(schema, c) == CHOOSE j \in 1..Len(schema) : schema[j].name = c

ColType(schema, c) == schema[ColIndex(schema, c)].type

\* what a column of the declared type keeps of a bound value (type affinity):
\* an INTEGER column turns a text that spells an integer into the integer, a
\* TEXT column turns an integer into its text; NULL and other text stay
Store(type, v) ==
    CASE type = "INTEGER" /\ v = "t1" -> "i1"
      [] type = "INTEGER" /\ v = "t2" -> "i2"
      [] type = "TEXT" /\ v = "i1" -> "t1"
      [] type = "TEXT" /\ v = "i2" -> "t2"
      [] OTHER -> v

\* "col = ?" with a bound value: NULL equals nothing; the column's affinity
\* is applied to the bound value before the comparison
SqlEquals(type, stored, param) ==
    /\ stored # "null"
    /\ param # "null"
    /\ stored = Store(type, param)

\* INSERT INTO t (fields) VALUES (?, ...): does the statement compile
InsertAccepted(db, row) ==
    /\ db.exists
    /\ DOMAIN row # {}
    /\ DOMAIN row \subseteq ColNames(db.schema)

\* the tuple INSERT INTO t (fields) VALUES (?, ...) stores for a mapping
InsertedTuple(schema, row) ==
    [j \in 1..Len(schema) |->
        IF schema[j].name \in DOMAIN row
        THEN Store(schema[j].type, row[schema[j].name])
        ELSE "null"]

\* a faulty variant: only the first entry of data is inserted
InsertAllFirstOnly(db, data) ==
    IF data = <<>> THEN [db |-> db, raised |-> FALSE]
    ELSE IF ~InsertAccepted(db, Head(data)) THEN [db |-> db, raised |-> TRUE]
    ELSE [db |-> [db EXCEPT !.rows = Append(@, InsertedTuple(db.schema, Head(data)))],
          raised |-> FALSE]

\* insertDict, lines 193-200: one INSERT per entry of data, in order, up to
\* the first statement that fails
RECURSIVE InsertAll(_, _)
InsertAll(db, data) ==
    IF data = <<>> THEN [db |-> db, raised |-> FALSE]
    ELSE IF ~InsertAccepted(db, Head(data)) THEN [db |-> db, raised |-> TRUE]
    ELSE InsertAll([db EXCEPT !.rows = Append(@, InsertedTuple(db.schema, Head(data)))],
                   Tail(data))

\* readTableAsDict, line 129: dict(zip(column names, row)) for every row
RowDicts(db) ==
    [i \in 1..Len(db.rows) |->
        [c \in ColNames(db.schema) |-> db.rows[i][ColIndex(db.schema, c)]]]

\* readTableAsDict, line 133: {row[key_column]: row for row in rows}; a later
\* row replaces an earlier one with the same key
readTableAsDict(db, key_column) ==
    LET rows == RowDicts(db)
        keys == {rows[i][key_column] : i \in DOMAIN rows}
        last(k) == CHOOSE i \in DOMAIN rows :
                      /\ rows[i][key_column] = k
                      /\ \A j \in DOMAIN rows : rows[j][key_column] = k => j <= i
    IN [k \in keys |-> rows[last(k)]]

\* a faulty variant: the UPDATE without its WHERE clause
UpdatedRowsNoWhere(db, col_name, new_value, col_where1, val_1) ==
    [i \in 1..Len(db.rows) |->
        [db.rows[i] EXCEPT ![ColIndex(db.schema, col_name)] =
                              Store(ColType(db.schema, col_name), new_value)]]

\* updateValue, line 48: UPDATE t SET col = ? WHERE col_where1 = ?
UpdatedRows(db, col_name, new_value, col_where1, val_1) ==
    [i \in 1..Len(db.rows) |->
        IF SqlEquals(ColType(db.schema, col_where1),
                     db.rows[i][ColIndex(db.schema, col_where1)], val_1)
        THEN [db.rows[i] EXCEPT ![ColIndex(db.schema, col_name)] =
                                    Store(ColType(db.schema, col_name), new_value)]
        ELSE db.rows[i]]

\* cursor.rowcount after the UPDATE: the rows the WHERE clause matched
MatchCount(db, col_where1, val_1) ==
    Cardinality({i \in 1..Len(db.rows) :
                    SqlEquals(ColType(db.schema, col_where1),
                              db.rows[i][ColIndex(db.schema, col_where1)], val_1)})

\* the rows a DELETE ... WHERE column j = lit leaves, in order
RECURSIVE RowsKept(_, _, _, _)
RowsKept(rows, type, j, lit) ==
    IF rows = <<>> THEN <<>>
    ELSE IF SqlEquals(type, Head(rows)[j], lit)
    THEN RowsKept(Tail(rows), type, j, lit)
    ELSE <<Head(rows)>> \o RowsKept(Tail(rows), type, j, lit)

IsIntValue(v) == v \in {"i1", "i2"}

\* deleteRows, line 98: the value is pasted into the statement as SQL text.
\* A text that spells an integer is read as that integer; the text 'a' is
\* read as the name of a column the table does not have.
PastedLiteral(v) == CASE v = "t1" -> "i1" [] v = "t2" -> "i2" [] OTHER -> v

PastedCompiles(db, col_where, v) ==
    /\ db.exists
    /\ col_where \in ColNames(db.schema)
    /\ v \in {"t1", "t2"}

\* a faulty variant: a call with one of the two condition arguments deletes
\* every row
DeleteOutcomeLoose(db, col_where, col_where_value) ==
    IF db.exists /\ (col_where = "null" \/ col_where_value = "null")
    THEN [db |-> [db EXCEPT !.rows = <<>>], raised |-> FALSE]
    ELSE [db |-> db, raised |-> TRUE]

\* deleteRows, lines 93-101: the outcome of the call on db
DeleteOutcome(db, col_where, col_where_value) ==
    IF col_where = "null" /\ col_where_value = "null"
    THEN IF db.exists
         THEN [db |-> [db EXCEPT !.rows = <<>>], raised |-> FALSE]
         ELSE [db |-> db, raised |-> TRUE]
    ELSE IF col_where # "null" /\ col_where_value # "null"
    THEN IF ~IsIntValue(col_where_value)
            /\ PastedCompiles(db, col_where, col_where_value)
         THEN [db |-> [db EXCEPT !.rows =
                          RowsKept(db.rows, ColType(db.schema, col_where),
                                   ColIndex(db.schema, col_where),
                                   PastedLiteral(col_where_value))],
               raised |-> FALSE]
         ELSE [db |-> db, raised |-> TRUE]
    ELSE [db |-> db, raised |-> TRUE]

\* a statement that changes the schema: sqlite3 opens no transaction for it,
\* so outside a transaction the engine commits it at once; inside one it is
\* part of the transaction
CommittedAfterDDL(pending, newView, oldCommitted) ==
    IF pending THEN oldCommitted ELSE newView

\* a faulty variant: no rollback: the pending changes stay
RolledBackNot(v, c) == v

\* undoChanges, line 121: self.connection.rollback()
RolledBack(v, c) == c

\* a faulty variant: the connection is closed without the commit
CommittedAtCloseNever(commit, v, c) == c

\* closeConnection, lines 307-309: what the file holds once the connection
\* is closed
CommittedAtClose(commit, v, c) == IF commit THEN v ELSE c

\* insertDictPartial, line 156: the entries of data_dict whose key is a column
\* of the table (PRAGMA table_info lists nothing for a table that is absent)
FilteredData(db, data_dict) ==
    [k \in (DOMAIN data_dict) \cap ColNames(db.schema) |-> data_dict[k]]

\* insertDictPartial, lines 159-165: INSERT INTO t (fields) VALUES (?, ...)
\* for the filtered entries; with no entry left the statement reads
\* "INSERT INTO t () VALUES ()" and does not compile
InsertDictPartialOutcome(db, data_dict) ==
    LET filtered_data == FilteredData(db, data_dict)
    IN IF InsertAccepted(db, filtered_data)
       THEN [db |-> [db EXCEPT !.rows = Append(@, InsertedTuple(db.schema, filtered_data))],
             raised |-> FALSE]
       ELSE [db |-> db, raised |-> TRUE]

\* insertRows, lines 272-273: executemany binds the tuples one after the
\* other to a statement with as many '?' as the first tuple has values
RECURSIVE ExecuteMany(_, _, _)
ExecuteMany(db, qmarks, list_of_tuples) ==
    IF list_of_tuples = <<>> THEN [db |-> db, raised |-> FALSE]
    ELSE IF Len(Head(list_of_tuples)) # qmarks THEN [db |-> db, raised |-> TRUE]
    ELSE ExecuteMany(
            [db EXCEPT !.rows = Append(@,
                [j \in 1..Len(db.schema) |->
                    Store(db.schema[j].type, Head(list_of_tuples)[j])])],
            qmarks, Tail(list_of_tuples))

\* insertRows, lines 266-275: list_of_tuples[0] of an empty list raises; the
\* statement compiles when the table has as many columns as it has '?'
InsertRowsOutcome(db, list_of_tuples) ==
    IF list_of_tuples = <<>> THEN [db |-> db, raised |-> TRUE]
    ELSE IF ~db.exists \/ Len(list_of_tuples[1]) # Len(db.schema)
    THEN [db |-> db, raised |-> TRUE]
    ELSE ExecuteMany(db, Len(list_of_tuples[1]), list_of_tuples)

\* renameTable, lines 74-75: ALTER TABLE t RENAME TO u, from the helper's
\* table name to the second name; it fails when t is absent or u is taken
RenameOutcome(db) ==
    IF db.exists /\ ~db.other
    THEN [db |-> [exists |-> FALSE, schema |-> <<>>, rows |-> <<>>, other |-> TRUE],
          raised |-> FALSE]
    ELSE [db |-> db, raised |-> TRUE]

\* a faulty variant: the call returns without the commit
CommittedByCallNot(v, c) == c

\* renameTable line 78, insertDictPartial line 168: self.commitChanges()
CommittedByCall(v, c) == v

\* readTableColumns, lines 214-226 with column_list = "all": the rows the
\* helper's own connection sees
readTableColumnsResult(db) == db.rows

\* dumpCSV, lines 281-283: the rows a connection opened for the dump reads
\* from the database file, which holds what was last committed to it
dumpCSVRows(seen, saved) == saved.rows

\* to_csv: a cell as text: None is the empty string, the integer 1 and the
\* text '1' are both 1
CsvCell(v) ==
    CASE v = "null" -> ""
      [] v \in {"i1", "t1"} -> "1"
      [] v \in {"i2", "t2"} -> "2"
      [] OTHER -> "a"

\* to_csv(index=False): one line of cells per row
CsvLines(rows) ==
    [i \in 1..Len(rows) |-> [j \in 1..Len(rows[i]) |-> CsvCell(rows[i][j])]]

\* insertRow's default argument objects as the 'def' statement made them
NoDefaults == [list |-> <<>>, dict |-> <<>>]

\* a faulty variant: the call extends the list it was given
ListAfterInsertRowExtended(ordered_content_list) ==
    ordered_content_list \o <<"i1", "ta">>

\* insertRow, lines 252-255: the object bound to ordered_content_list after
\* the call; the call only reads it (len, iteration)
ListAfterInsertRow(ordered_content_list) == ordered_content_list

\* insertRow, lines 257-261: the object bound to dictionary_obj after the
\* call; the call only reads it (len, keys(), values())
DictAfterInsertRow(dictionary_obj) == dictionary_obj

\* insertRow, lines 252-261: the outcome on db of the call with these values
\* bound to its two parameters
InsertRowOutcome(db, ordered_content_list, dictionary_obj) ==
    LET positional == Len(ordered_content_list) > 0
        keyed == ~positional /\ DOMAIN dictionary_obj # {}
        accepted == IF positional
                    THEN db.exists /\ Len(ordered_content_list) = Len(db.schema)
                    ELSE InsertAccepted(db, dictionary_obj)
        tuple == IF positional
                 THEN [j \in 1..Len(db.schema) |->
                          Store(db.schema[j].type, ordered_content_list[j])]
                 ELSE InsertedTuple(db.schema, dictionary_obj)
    IN IF ~positional /\ ~keyed
       THEN [db |-> db, inserted |-> FALSE, raised |-> FALSE]
       ELSE IF accepted
       THEN [db |-> [db EXCEPT !.rows = Append(@, tuple)],
             inserted |-> TRUE, raised |-> FALSE]
       ELSE [db |-> db, inserted |-> FALSE, raised |-> TRUE]

----------------------------------------------------------------------------
(* SpecDb: calls on one helper instance *)

\* the mappings given to insertDict, as the sequence of their row mappings:
\* rows that give every column a value of its type, a row whose id is the
\* text '1', a row that gives the id alone
RowA == [id |-> "i1", name |-> "ta"]
RowB == [id |-> "i2", name |-> "null"]
RowText1 == [id |-> "t1", name |-> "ta"]
RowIdOnly == [id |-> "i2"]

DataChoices ==
    {<<>>, <<RowA>>, <<RowB>>, <<RowA, RowB>>, <<RowText1>>, <<RowIdOnly>>,
     <<RowA, RowText1>>}

UpdateChoices ==
    {<<"name", "t2", "id", "i1">>, <<"name", "null", "id", "t1">>,
     <<"id", "t2", "name", "ta">>, <<"name", "i2", "name", "null">>,
     <<"id", "null", "id", "null">>}

\* the lists passed to insertRow as ordered_content_list, when one is passed
ListChoices(omitted) ==
    IF "ordered_content_list" \in omitted THEN {<<>>}
    ELSE {<<"i2", "null">>, <<"i1">>}

\* the mappings passed to insertRow as dictionary_obj, when one is passed
DictChoices(omitted) ==
    IF "dictionary_obj" \in omitted THEN {<<>>} ELSE {[id |-> "i1"]}

\* the lists given to insertRows: one full tuple, a full one and then a
\* short one, none
TupleChoices ==
    {<<<<"i1", "ta">>>>, <<<<"i2", "null">>, <<"i1">>>>, <<>>}

\* the mappings given to insertDictPartial: every key a column, one key a
\* column and one not, no key a column
PartialChoices ==
    {RowA, [id |-> "i2", zz |-> "ta"], [zz |-> "ta"]}

DeleteChoices ==
    {<<"null", "null">>, <<"id", "t1">>, <<"id", "i1">>, <<"name", "ta">>,
     <<"id", "null">>, <<"null", "t1">>}

InitDb ==
    /\ DlIdle
    /\ GeoIdle
    /\ FsIdle
    /\ TreeIdle
    /\ Mp3Idle
    /\ conn = "closed"
    /\ view = NoTable
    /\ committed = NoTable
    /\ inTxn = FALSE
    /\ defaults = NoDefaults
    /\ lastOp = NoOp

\* connect, lines 28-30
connect ==
    /\ conn = "closed"
    /\ conn' = "open"
    /\ view' = committed
    /\ inTxn' = FALSE
    /\ lastOp' = [name |-> "connect"]
    /\ UNCHANGED <<committed, defaults, notDbVars>>

\* createTableFromDict, lines 179-187
createTableFromDict(columns_with_types) ==
    /\ conn = "open"
    /\ LET created == IF view.exists THEN view
                      ELSE [view EXCEPT !.exists = TRUE,
                                        !.schema = columns_with_types,
                                        !.rows = <<>>]
       IN /\ view' = created
          /\ committed' = created
    /\ inTxn' = FALSE
    /\ lastOp' = [name |-> "createTableFromDict", raised |-> FALSE]
    /\ UNCHANGED <<conn, defaults, notDbVars>>

\* insertDict, lines 190-203
insertDict(data) ==
    /\ conn = "open"
    /\ Len(view.rows) + Len(data) <= MaxRows
    /\ LET r == InsertAll(view, data)
       IN /\ view' = r.db
          /\ committed' = IF r.raised THEN committed ELSE r.db
          /\ inTxn' = IF r.raised THEN (inTxn \/ r.db # view) ELSE FALSE
          /\ lastOp' = [name |-> "insertDict", data |-> data, raised |-> r.raised]
    /\ UNCHANGED <<conn, defaults, notDbVars>>

\* the parameters of insertRow that have a default
DefaultedParameters == {"ordered_content_list", "dictionary_obj"}

\* insertRow, lines 247-264: a parameter named in 'omitted' is bound to the
\* default object, another to the container the caller passes
insertRow(passed_list, passed_dict, omitted) ==
    /\ conn = "open"
    /\ Len(view.rows) < MaxRows
    /\ LET ordered_content_list ==
               IF "ordered_content_list" \in omitted THEN defaults.list ELSE passed_list
           dictionary_obj ==
               IF "dictionary_obj" \in omitted THEN defaults.dict ELSE passed_dict
           r == InsertRowOutcome(view, ordered_content_list, dictionary_obj)
       IN /\ view' = r.db
          /\ inTxn' = (inTxn \/ r.inserted)
          /\ defaults' =
                [list |-> IF "ordered_content_list" \in omitted
                          THEN ListAfterInsertRow(ordered_content_list)
                          ELSE defaults.list,
                 dict |-> IF "dictionary_obj" \in omitted
                          THEN DictAfterInsertRow(dictionary_obj)
                          ELSE defaults.dict]
          /\ lastOp' = [name |-> "insertRow", inserted |-> r.inserted,
                        raised |-> r.raised, omitted |-> omitted,
                        list_before |-> ordered_content_list,
                        list_after |-> ListAfterInsertRow(ordered_content_list),
                        dict_before |-> dictionary_obj,
                        dict_after |-> DictAfterInsertRow(dictionary_obj),
                        earlier |-> (lastOp.name = "insertRow" /\ lastOp.inserted)]
    /\ UNCHANGED <<conn, committed, notDbVars>>

\* insertRows, lines 266-275
insertRows(list_of_tuples) ==
    /\ conn = "open"
    /\ Len(view.rows) + Len(list_of_tuples) <= MaxRows
    /\ LET r == InsertRowsOutcome(view, list_of_tuples)
       IN /\ view' = r.db
          /\ inTxn' = (inTxn \/ r.db # view)
          /\ lastOp' = [name |-> "insertRows", raised |-> r.raised]
    /\ UNCHANGED <<conn, committed, defaults, notDbVars>>

\* insertDictPartial, lines 148-168
insertDictPartial(data_dict) ==
    /\ conn = "open"
    /\ Len(view.rows) < MaxRows
    /\ LET r == InsertDictPartialOutcome(view, data_dict)
       IN /\ view' = r.db
          /\ committed' = IF r.raised THEN committed ELSE CommittedByCall(r.db, committed)
          /\ inTxn' = IF r.raised THEN inTxn ELSE FALSE
          /\ lastOp' = [name |-> "insertDictPartial", data_dict |-> data_dict,
                        raised |-> r.raised, pending |-> inTxn]
    /\ UNCHANGED <<conn, defaults, notDbVars>>

\* renameTable, lines 70-78, with the helper's table name as old_table_name
\* and the second name as new_table_name
renameTable ==
    /\ conn = "open"
    /\ LET r == RenameOutcome(view)
       IN /\ view' = r.db
          /\ committed' = IF r.raised THEN committed ELSE CommittedByCall(r.db, committed)
          /\ inTxn' = IF r.raised THEN inTxn ELSE FALSE
          /\ lastOp' = [name |-> "renameTable", raised |-> r.raised,
                        pending |-> inTxn]
    /\ UNCHANGED <<conn, defaults, notDbVars>>

\* dumpCSV, lines 277-291: the lines written to file_name, the header aside
dumpCSV ==
    /\ conn = "open"
    /\ lastOp' = IF committed.exists
                 THEN [name |-> "dumpCSV", raised |-> FALSE,
                       lines |-> CsvLines(dumpCSVRows(view, committed))]
                 ELSE [name |-> "dumpCSV", raised |-> TRUE, lines |-> <<>>]
    /\ UNCHANGED <<dbVars, notDbVars>>

\* updateValue, lines 34-56
updateValue(col_name, new_value, col_where1, val_1) ==
    /\ conn = "open"
    /\ IF view.exists
       THEN /\ view' = [view EXCEPT !.rows =
                           UpdatedRows(view, col_name, new_value, col_where1, val_1)]
            /\ inTxn' = TRUE
            /\ lastOp' = [name |-> "updateValue", col_name |-> col_name,
                          new_value |-> new_value, col_where1 |-> col_where1,
                          val_1 |-> val_1, raised |-> FALSE,
                          rowcount |-> MatchCount(view, col_where1, val_1)]
       ELSE /\ UNCHANGED <<view, inTxn>>
            /\ lastOp' = [name |-> "updateValue", col_name |-> col_name,
                          new_value |-> new_value, col_where1 |-> col_where1,
                          val_1 |-> val_1, raised |-> TRUE, rowcount |-> 0]
    /\ UNCHANGED <<conn, committed, defaults, notDbVars>>

\* deleteRows, lines 88-104
deleteRows(col_where, col_where_value) ==
    /\ conn = "open"
    /\ LET r == DeleteOutcome(view, col_where, col_where_value)
       IN /\ view' = r.db
          /\ inTxn' = (inTxn \/ ~r.raised)
          /\ lastOp' = [name |-> "deleteRows", col_where |-> col_where,
                        col_where_value |-> col_where_value, raised |-> r.raised]
    /\ UNCHANGED <<conn, committed, defaults, notDbVars>>

\* deleteTable, lines 106-111
deleteTable ==
    /\ conn = "open"
    /\ IF view.exists
       THEN /\ view' = Dropped(view)
            /\ committed' = CommittedAfterDDL(inTxn, Dropped(view), committed)
            /\ lastOp' = [name |-> "deleteTable", raised |-> FALSE]
       ELSE /\ UNCHANGED <<view, committed>>
            /\ lastOp' = [name |-> "deleteTable", raised |-> TRUE]
    /\ UNCHANGED <<conn, inTxn, defaults, notDbVars>>

\* commitChanges, lines 293-301
commitChanges ==
    /\ conn = "open"
    /\ committed' = view
    /\ inTxn' = FALSE
    /\ lastOp' = [name |-> "commitChanges", pending |-> inTxn]
    /\ UNCHANGED <<conn, view, defaults, notDbVars>>

\* undoChanges, lines 116-122: rollback, then commitChanges
undoChanges ==
    /\ conn = "open"
    /\ view' = RolledBack(view, committed)
    /\ committed' = view'
    /\ inTxn' = FALSE
    /\ lastOp' = [name |-> "undoChanges", pending |-> inTxn,
                  discarded |-> (view # committed)]
    /\ UNCHANGED <<conn, defaults, notDbVars>>

\* closeConnection, lines 303-310
closeConnection(commit) ==
    /\ conn = "open"
    /\ committed' = CommittedAtClose(commit, view, committed)
    /\ view' = committed'
    /\ inTxn' = FALSE
    /\ conn' = "closed"
    /\ lastOp' = [name |-> "closeConnection", commit |-> commit, pending |-> inTxn,
                  saved |-> (commit /\ view # committed)]
    /\ UNCHANGED <<defaults, notDbVars>>

NextDb ==
    \/ connect
    \/ \E s \in SchemaChoices : createTableFromDict(s)
    \/ \E data \in DataChoices : insertDict(data)
    \/ \E omitted \in SUBSET DefaultedParameters :
       \E l \in ListChoices(omitted), d \in DictChoices(omitted) :
          insertRow(l, d, omitted)
    \/ \E tuples \in TupleChoices : insertRows(tuples)
    \/ \E data_dict \in PartialChoices : insertDictPartial(data_dict)
    \/ renameTable
    \/ dumpCSV
    \/ \E u \in UpdateChoices : updateValue(u[1], u[2], u[3], u[4])
    \/ \E d \in DeleteChoices : deleteRows(d[1], d[2])
    \/ deleteTable
    \/ commitChanges
    \/ undoChanges
    \/ \E commit \in BOOLEAN : closeConnection(commit)

SpecDb == InitDb /\ [][NextDb]_vars

----------------------------------------------------------------------------
(* listFiles and deleteFile: one directory and the entries in it           *)
(*                                                                         *)
(* A name or an extension argument is a sequence of characters.  An entry  *)
(* is "absent", a "file", a "dir" (a subdirectory) or "locked" (a file     *)
(* os.remove cannot remove).                                               *)

NameAT == <<"a", ".", "t">>
NameAt == <<"a", "t">>
NameHidden == <<".", "t">>
NameBXT == <<"b", ".", "x", "t">>

Names == {NameAT, NameAt, NameHidden, NameBXT}

Kinds == {"absent", "file", "dir", "locked"}

\* ext = None
NoneExt == <<"None">>

\* the extension names the callers mean, without any leading '*' or '.'
ExtNames == {<<>>, <<"t">>, <<"x">>, <<"x", "t">>}

\* the four spellings of an extension name: 'e', '.e', '*e', '*.e'
Spellings(e) == {e, <<".">> \o e, <<"*">> \o e, <<"*", ".">> \o e}

\* str.lstrip(ch)
RECURSIVE LStrip(_, _)
LStrip(str, ch) ==
    IF str # <<>> /\ Head(str) = ch THEN LStrip(Tail(str), ch) ELSE str

StartsWith(str, ch) == str # <<>> /\ Head(str) = ch

\* a faulty variant: the '.' is never put in front of the extension
NormalizedExtNoDot(ext) ==
    IF ext = NoneExt THEN <<"*">> ELSE LStrip(ext, "*")

\* listFiles, lines 47-52
NormalizedExt(ext) ==
    IF ext = NoneExt THEN <<"*">>
    ELSE LET e == LStrip(ext, "*")
         IN IF StartsWith(e, ".") THEN e ELSE <<".">> \o e

\* listFiles, line 54: the last segment of the pattern, f'*{ext}'
Pattern(ext) == <<"*">> \o NormalizedExt(ext)

\* fnmatch: '*' matches any run of characters, '?' any one character
RECURSIVE FnMatch(_, _)
FnMatch(pat, name) ==
    IF pat = <<>> THEN name = <<>>
    ELSE IF Head(pat) = "*"
    THEN FnMatch(Tail(pat), name) \/ (name # <<>> /\ FnMatch(pat, Tail(name)))
    ELSE /\ name # <<>>
         /\ Head(pat) = "?" \/ Head(pat) = Head(name)
         /\ FnMatch(Tail(pat), Tail(name))

\* glob.glob: the entries of the directory whose names match the pattern; a
\* name that starts with '.' is matched only by a pattern that starts with '.'
Glob(dir, pat) ==
    {n \in Names : /\ dir[n] # "absent"
                   /\ StartsWith(n, ".") => StartsWith(pat, ".")
                   /\ FnMatch(pat, n)}

\* the paths given to listFiles: the directory, and a path that is none
Paths == {"dir", "nodir"}
IsDir(path) == path = "dir"

\* listFiles, lines 40-60: the names of the entries returned
listFilesResult(dir, path, ext) ==
    IF ~IsDir(path) THEN {} ELSE Glob(dir, Pattern(ext))

\* a faulty variant: the result is never set to True
DeleteFileOutcomeNeverTrue(kind) ==
    IF kind = "file" THEN [deleted |-> FALSE, kind |-> "absent"]
    ELSE [deleted |-> FALSE, kind |-> kind]

\* deleteFile, lines 262-277: the value returned and what is left at the
\* path; os.remove fails on a directory and on a file it may not remove
DeleteFileOutcome(kind) ==
    IF kind = "file" THEN [deleted |-> TRUE, kind |-> "absent"]
    ELSE [deleted |-> FALSE, kind |-> kind]

----------------------------------------------------------------------------
(* SpecFs: calls of listFiles and deleteFile on one directory *)

InitFs ==
    /\ DlIdle
    /\ GeoIdle
    /\ DbIdle
    /\ TreeIdle
    /\ Mp3Idle
    /\ entries \in [Names -> Kinds]
    /\ lastOp = NoOp

\* listFiles, lines 40-60
listFiles(path, ext) ==
    /\ lastOp' = [name |-> "listFiles", path |-> path, ext |-> ext,
                  ret |-> listFilesResult(entries, path, ext)]
    /\ UNCHANGED <<entries, notFsVars>>

\* deleteFile, lines 253-277
deleteFile(filePath) ==
    /\ LET r == DeleteFileOutcome(entries[filePath])
       IN /\ entries' = [entries EXCEPT ![filePath] = r.kind]
          /\ lastOp' = [name |-> "deleteFile", filePath |-> filePath,
                        ret |-> r.deleted, raised |-> FALSE]
    /\ UNCHANGED notFsVars

ExtArguments == {NoneExt} \cup UNION {Spellings(e) : e \in ExtNames}

NextFs ==
    \/ \E path \in Paths, ext \in ExtArguments : listFiles(path, ext)
    \/ \E filePath \in Names : deleteFile(filePath)

SpecFs == InitFs /\ [][NextFs]_vars

----------------------------------------------------------------------------
(* The path helpers: a directory tree under the working directory          *)
(*                                                                         *)
(* A path string is a sequence of characters.  Every file or directory     *)
(* name is one character long, so the components of a path are its name    *)
(* characters; "/" separates them and "." names the directory itself.  A   *)
(* node of the tree is identified by the sequence of the names that lead   *)
(* to it from the working directory.                                       *)

NameChars == {"a", "b"}

Nodes == UNION {[1..d -> NameChars] : d \in 1..MaxDepth}

NoNode == [kind |-> "none", data |-> <<>>]
DirNode == [kind |-> "dir", data |-> <<>>]
FileNode(data) == [kind |-> "file", data |-> data]

\* str.endswith(ch)
EndsWith(str, ch) == str # <<>> /\ str[Len(str)] = ch

\* str[:-1]
DropLast(str) == SubSeq(str, 1, Len(str) - 1)

\* str.rstrip(ch)
RECURSIVE RStrip(_, _)
RStrip(str, ch) == IF EndsWith(str, ch) THEN RStrip(DropLast(str), ch) ELSE str

\* str.rfind('/') + 1
RECURSIVE AfterLastSlash(_)
AfterLastSlash(str) ==
    IF str = <<>> \/ EndsWith(str, "/") THEN Len(str)
    ELSE AfterLastSlash(DropLast(str))

\* os.path.dirname
Dirname(str) ==
    LET head == SubSeq(str, 1, AfterLastSlash(str))
    IN IF RStrip(head, "/") = <<>> THEN head ELSE RStrip(head, "/")

\* os.path.join(a, b) for a relative b
Join(a, b) ==
    IF a = <<>> \/ EndsWith(a, "/") THEN a \o b ELSE a \o <<"/">> \o b

\* the names a path string walks through, from the working directory
Comps(str) == SelectSeq(str, LAMBDA c : c \in NameChars)

IsPrefix(a, b) == Len(a) <= Len(b) /\ SubSeq(b, 1, Len(a)) = a

\* the kind of what a path string leads to: the empty string leads nowhere,
\* "/", "." and "./" lead to a directory that always exists, and a file
\* followed by "/" is no path
KindAt(t, str) ==
    LET c == Comps(str)
    IN IF str = <<>> THEN "none"
       ELSE IF c = <<>> THEN "dir"
       ELSE IF Len(c) > MaxDepth THEN "none"
       ELSE IF t[c].kind = "file" /\ EndsWith(str, "/") THEN "none"
       ELSE t[c].kind

exists(t, str) == KindAt(t, str) # "none"
isdir(t, str) == KindAt(t, str) = "dir"
isfile(t, str) == KindAt(t, str) = "file"

\* os.makedirs(str, exist_ok): every missing directory on the way is made; it
\* raises on the empty string, on a file in the way, and on a directory that
\* is already there unless exist_ok
makedirs(t, str, exist_ok) ==
    LET c == Comps(str)
        blocked == \E k \in 1..Len(c) : t[SubSeq(c, 1, k)].kind = "file"
        there == c = <<>> \/ t[c].kind = "dir"
    IN IF str = <<>> \/ Len(c) > MaxDepth THEN [tree |-> t, raised |-> TRUE]
       ELSE IF blocked \/ (there /\ ~exist_ok) THEN [tree |-> t, raised |-> TRUE]
       ELSE [tree |-> [n \in Nodes |-> IF IsPrefix(n, c) THEN DirNode ELSE t[n]],
             raised |-> FALSE]

\* shutil.rmtree(str) on a directory: the node and all below it are gone
rmtree(t, str) ==
    [n \in Nodes |-> IF IsPrefix(Comps(str), n) THEN NoNode ELSE t[n]]

\* open(str, 'w') or open(str, 'wb') succeeds: the parent is a directory and
\* the path is not one
CanOpenForWrite(t, str) ==
    LET c == Comps(str)
    IN /\ c # <<>>
       /\ Len(c) <= MaxDepth
       /\ ~EndsWith(str, "/")
       /\ t[c].kind # "dir"
       /\ Len(c) > 1 => t[DropLast(c)].kind = "dir"

\* the file at str holds data
WithFile(t, str, data) == [t EXCEPT ![Comps(str)] = FileNode(data)]

\* createPath, lines 598-599: the value returned for ''
createPathOfEmpty == <<".", "/">>

\* createPath, lines 592-608: the tree afterwards, the value returned, and
\* whether os.makedirs raised
createPathResult(t, pathName) ==
    IF pathName = <<>>
    THEN [tree |-> t, ret |-> createPathOfEmpty, raised |-> FALSE]
    ELSE LET p1 == IF EndsWith(pathName, "\\") THEN DropLast(pathName) ELSE pathName
             p2 == IF ~EndsWith(p1, "/") THEN p1 \o <<"/">> ELSE p1
             m  == IF ~isdir(t, p2) THEN makedirs(t, p2, FALSE)
                   ELSE [tree |-> t, raised |-> FALSE]
         IN [tree |-> m.tree,
             ret |-> IF m.raised THEN <<>> ELSE DropLast(p2),
             raised |-> m.raised]

\* deletePath, lines 279-301: the function ends without a return statement
deletePathReturn(deleted) == "None"

\* deletePath, lines 288-301: shutil.rmtree raises on a file and the bare
\* except swallows it
deletePathResult(t, path) ==
    IF isdir(t, path)
    THEN [tree |-> rmtree(t, path), ret |-> deletePathReturn(TRUE), raised |-> FALSE]
    ELSE [tree |-> t, ret |-> deletePathReturn(FALSE), raised |-> FALSE]

\* line.encode(encode_codec): the bytes of a line
Encode(line) == <<"bytes", line>>

NoCodec == "None"

\* writeTo, line 580
EncodedText(file_text, encode_codec) ==
    IF encode_codec # NoCodec
    THEN [i \in 1..Len(file_text) |-> Encode(file_text[i])]
    ELSE file_text

\* writeTo, lines 567-584: open, then createPath(dirname), then writelines
writeToResult(t, filename, file_text, encode_codec) ==
    IF ~CanOpenForWrite(t, filename)
    THEN [tree |-> t, ret |-> "False", raised |-> FALSE]
    ELSE LET opened == WithFile(t, filename, <<>>)
             c == createPathResult(opened, Dirname(filename))
         IN [tree |-> WithFile(c.tree, filename, EncodedText(file_text, encode_codec)),
             ret |-> "True", raised |-> c.raised]

NoChange(t) == [tree |-> t, ret |-> "None", raised |-> FALSE]
Raised(t) == [tree |-> t, ret |-> "None", raised |-> TRUE]
Returned(t, value) == [tree |-> t, ret |-> value, raised |-> FALSE]

\* what src.read() gives once destination is open for writing: opening the
\* source's own path for writing has emptied it
ReadForCopy(t, source, destination) ==
    IF Comps(source) = Comps(destination) THEN <<>> ELSE t[Comps(source)].data

\* copyFile, lines 1086-1096: the destination's directory is made, then the
\* source is opened (this raises unless it is a file), then the destination
copyFileResult(t, source, destination) ==
    LET d == Dirname(destination)
        c == IF ~exists(t, d) THEN createPathResult(t, d \o <<"/">>)
             ELSE NoChange(t)
    IN IF c.raised THEN Raised(c.tree)
       ELSE IF ~isfile(c.tree, source) THEN Raised(c.tree)
       ELSE IF ~CanOpenForWrite(c.tree, destination) THEN Raised(c.tree)
       ELSE NoChange(WithFile(c.tree, destination,
                              ReadForCopy(c.tree, source, destination)))

\* os.listdir(str), in the order the directory hands its entries out
listdir(t, str, order) ==
    IF Len(Comps(str)) >= MaxDepth THEN <<>>
    ELSE SelectSeq(order, LAMBDA item : t[Comps(str) \o <<item>>].kind # "none")

\* the orders in which a directory may hand its entries out
Orders == {<<"a", "b">>, <<"b", "a">>}

RECURSIVE copyDirectoryResult(_, _, _, _, _, _)
RECURSIVE copyItems(_, _, _, _, _, _, _)

\* copyDirectory, lines 1125-1139: the loop over the entries of source
copyItems(t, source, destination, recursive, v, order, items) ==
    IF items = <<>> THEN NoChange(t)
    ELSE LET s == Join(source, <<Head(items)>>)
             d == Join(destination, <<Head(items)>>)
             r == IF isdir(t, s)
                  THEN IF recursive
                       THEN copyDirectoryResult(t, s, d, recursive, v, order)
                       ELSE NoChange(t)
                  ELSE copyFileResult(t, s, d)
         IN IF r.raised THEN r
            ELSE copyItems(r.tree, source, destination, recursive, v, order,
                           Tail(items))

\* copyDirectory, lines 1099-1140, with filter = []: the destination is made,
\* the items are counted, then os.listdir(source) raises unless source is a
\* directory; v only switches the progress display
copyDirectoryResult(t, source, destination, recursive, v, order) ==
    LET m == IF ~exists(t, destination) THEN makedirs(t, destination, FALSE)
             ELSE [tree |-> t, raised |-> FALSE]
    IN IF m.raised THEN Raised(m.tree)
       ELSE IF ~isdir(m.tree, source) THEN Raised(m.tree)
       ELSE copyItems(m.tree, source, destination, recursive, v, order,
                      listdir(m.tree, source, order))

\* copyFolder, lines 1143-1147: copyDirectory(source, destination, v), so v
\* arrives as the third parameter, recursive, and v itself keeps its default
copyFolderResult(t, source, destination, v, order) ==
    copyDirectoryResult(t, source, destination, v, TRUE, order)

\* shutil.move(src, dst) of a file: into dst when dst is a directory (an
\* entry of that name there is an error), else onto dst, replacing a file
shutilMove(t, src, dst) ==
    LET name == <<src[Len(src)]>>
        real == IF isdir(t, dst) THEN Join(dst, name) ELSE dst
    IN IF isdir(t, dst) /\ exists(t, real) THEN Raised(t)
       ELSE IF Comps(real) = Comps(src) THEN NoChange(t)
       ELSE IF ~CanOpenForWrite(t, real) THEN Raised(t)
       ELSE NoChange([WithFile(t, real, t[Comps(src)].data)
                         EXCEPT ![Comps(src)] = NoNode])

\* the files among the entries of a directory, in listing order
FilesIn(t, str, order) ==
    SelectSeq(listdir(t, str, order), LAMBDA f : isfile(t, Join(str, <<f>>)))

\* the directories among the entries of a directory, in listing order
DirsIn(t, str, order) ==
    SelectSeq(listdir(t, str, order), LAMBDA f : isdir(t, Join(str, <<f>>)))

\* moveDirectory, lines 682-687: the loop over the files of srcDir
RECURSIVE moveItems(_, _, _, _)
moveItems(t, srcDir, destDir, fileNames) ==
    IF fileNames = <<>> THEN Returned(t, "True")
    ELSE LET r == shutilMove(t, Join(srcDir, <<Head(fileNames)>>),
                             Join(destDir, <<Head(fileNames)>>))
         IN IF r.raised THEN r
            ELSE moveItems(r.tree, srcDir, destDir, Tail(fileNames))

\* moveDirectory, lines 663-689
moveDirectoryResult(t, srcDir, destDir, order) ==
    IF ~isdir(t, srcDir) THEN Returned(t, "False")
    ELSE LET c == IF ~isdir(t, destDir)
                  THEN createPathResult(t, destDir \o <<"/">>)
                  ELSE NoChange(t)
         IN IF c.raised THEN Raised(c.tree)
            ELSE moveItems(c.tree, srcDir, destDir, FilesIn(c.tree, srcDir, order))

\* moveDirectoryFiles, lines 721-729: the files of one directory are moved,
\* an error of shutil.move is printed and passed over
RECURSIVE moveFilesQuietly(_, _, _, _)
moveFilesQuietly(t, root, dest_root, fileNames) ==
    IF fileNames = <<>> THEN t
    ELSE moveFilesQuietly(shutilMove(t, Join(root, <<Head(fileNames)>>),
                                     Join(dest_root, <<Head(fileNames)>>)).tree,
                          root, dest_root, Tail(fileNames))

RECURSIVE walkFrom(_, _, _, _)
RECURSIVE walkInto(_, _, _, _, _)

\* moveDirectoryFiles, lines 710-729, os.walk top down: the subdirectories
\* of root, listed before its files were moved, are visited in turn
walkInto(t, root, dest_root, order, dirs) ==
    IF dirs = <<>> THEN Returned(t, "True")
    ELSE LET r == walkFrom(t, Join(root, <<Head(dirs)>>),
                           Join(dest_root, <<Head(dirs)>>), order)
         IN IF r.raised THEN r
            ELSE walkInto(r.tree, root, dest_root, order, Tail(dirs))

\* moveDirectoryFiles, lines 710-729: one directory of the walk
walkFrom(t, root, dest_root, order) ==
    LET m == IF ~exists(t, dest_root) THEN makedirs(t, dest_root, TRUE)
             ELSE [tree |-> t, raised |-> FALSE]
    IN IF m.raised THEN Raised(m.tree)
       ELSE walkInto(moveFilesQuietly(m.tree, root, dest_root,
                                      FilesIn(t, root, order)),
                     root, dest_root, order, DirsIn(t, root, order))

\* moveDirectoryFiles, lines 692-731
moveDirectoryFilesResult(t, srcDir, destDir, order) ==
    IF ~isdir(t, srcDir) THEN Returned(t, "False")
    ELSE LET m == IF ~isdir(t, destDir) THEN makedirs(t, destDir, TRUE)
                  ELSE [tree |-> t, raised |-> FALSE]
         IN IF m.raised THEN Raised(m.tree)
            ELSE walkFrom(m.tree, srcDir, destDir, order)

----------------------------------------------------------------------------
(* SpecTree: calls of the path helpers on one directory tree *)

OldData == <<"o">>

StartKinds == {"none", "dir", "file"}

StartNode(kind) ==
    IF kind = "dir" THEN DirNode
    ELSE IF kind = "file" THEN FileNode(OldData)
    ELSE NoNode

\* the trees a run starts from: entries one and two levels down
StartTree(top, sub) ==
    [n \in Nodes |->
        IF Len(n) = 1 THEN StartNode(top[n[1]])
        ELSE IF Len(n) = 2 /\ top[n[1]] = "dir" THEN StartNode(sub[n])
        ELSE NoNode]

InitTree ==
    /\ DlIdle
    /\ GeoIdle
    /\ DbIdle
    /\ FsIdle
    /\ Mp3Idle
    /\ \E top \in [NameChars -> StartKinds] :
       \E sub \in [[1..2 -> NameChars] -> StartKinds] :
          tree = StartTree(top, sub)
    /\ calls = 0
    /\ lastOp = NoOp

PathA == <<"a">>
PathB == <<"b">>
PathAB == <<"a", "/", "b">>
PathBA == <<"b", "/", "a">>

\* the path arguments of deletePath
PathArgs == {PathA, PathAB}

\* the (source, destination) arguments of the copy and move helpers
PathPairs == {<<PathA, PathB>>, <<PathA, PathBA>>, <<PathAB, PathB>>}

\* the strings given to createPath: '', '/', '.', './', and a path with no
\* trailing separator, with '/' and with '\'
CreatePathArgs ==
    {<<>>, <<"/">>, <<".">>, <<".", "/">>}
    \cup UNION {{p, p \o <<"/">>, p \o <<"\\">>} : p \in {PathA, PathAB}}

FileNameArgs == {PathA, PathAB, PathBA, PathAB \o <<"/", "a">>}

TextArgs == {<<"x", "y">>}

CodecArgs == {NoCodec, "utf-8"}

\* how far the tree reaches below a path
Height(t, str) ==
    LET c == Comps(str)
        below == {Len(n) - Len(c) : n \in {m \in Nodes : IsPrefix(c, m) /\ t[m].kind # "none"}}
    IN IF below = {} THEN 0 ELSE CHOOSE h \in below : \A k \in below : k <= h

\* b is a or lies below a
Inside(a, b) == IsPrefix(Comps(a), Comps(b))

\* createPath, lines 592-608
createPath(pathName) ==
    /\ calls < MaxCalls
    /\ LET r == createPathResult(tree, pathName)
       IN /\ tree' = r.tree
          /\ lastOp' = [name |-> "createPath", pathName |-> pathName,
                        ret |-> r.ret, raised |-> r.raised]
    /\ calls' = calls + 1
    /\ UNCHANGED notTreeVars

\* deletePath, lines 279-301
deletePath(path) ==
    /\ calls < MaxCalls
    /\ LET r == deletePathResult(tree, path)
       IN /\ tree' = r.tree
          /\ lastOp' = [name |-> "deletePath", path |-> path,
                        ret |-> r.ret, raised |-> r.raised]
    /\ calls' = calls + 1
    /\ UNCHANGED notTreeVars

\* writeTo, lines 567-584
writeTo(filename, file_text, encode_codec) ==
    /\ calls < MaxCalls
    /\ LET r == writeToResult(tree, filename, file_text, encode_codec)
       IN /\ tree' = r.tree
          /\ lastOp' = [name |-> "writeTo", filename |-> filename,
                        file_text |-> file_text, encode_codec |-> encode_codec,
                        ret |-> r.ret, raised |-> r.raised]
    /\ calls' = calls + 1
    /\ UNCHANGED notTreeVars

\* copyFile, lines 1086-1096
copyFile(source, destination) ==
    /\ calls < MaxCalls
    /\ LET r == copyFileResult(tree, source, destination)
       IN /\ tree' = r.tree
          /\ lastOp' = [name |-> "copyFile", source |-> source,
                        destination |-> destination,
                        ret |-> r.ret, raised |-> r.raised]
    /\ calls' = calls + 1
    /\ UNCHANGED notTreeVars

\* the copy fits the modelled depth and does not descend into itself
CopyFits(t, source, destination) ==
    /\ ~Inside(source, destination)
    /\ Len(Comps(destination)) + Height(t, source) <= MaxDepth

\* copyDirectory, lines 1099-1140
copyDirectory(source, destination, recursive, v, order) ==
    /\ calls < MaxCalls
    /\ CopyFits(tree, source, destination)
    /\ LET r == copyDirectoryResult(tree, source, destination, recursive, v, order)
       IN /\ tree' = r.tree
          /\ lastOp' = [name |-> "copyDirectory", source |-> source,
                        destination |-> destination, recursive |-> recursive,
                        v |-> v, order |-> order,
                        ret |-> r.ret, raised |-> r.raised]
    /\ calls' = calls + 1
    /\ UNCHANGED notTreeVars

\* copyFolder, lines 1143-1147
copyFolder(source, destination, v, order) ==
    /\ calls < MaxCalls
    /\ CopyFits(tree, source, destination)
    /\ LET r == copyFolderResult(tree, source, destination, v, order)
       IN /\ tree' = r.tree
          /\ lastOp' = [name |-> "copyFolder", source |-> source,
                        destination |-> destination, v |-> v, order |-> order,
                        ret |-> r.ret, raised |-> r.raised]
    /\ calls' = calls + 1
    /\ UNCHANGED notTreeVars

\* the moved files fit the modelled depth, also when one lands in a
\* directory of its own name
MoveFits(t, srcDir, destDir) ==
    /\ ~Inside(srcDir, destDir)
    /\ Len(Comps(destDir)) + Height(t, srcDir) + 1 <= MaxDepth

\* moveDirectory, lines 663-689
moveDirectory(srcDir, destDir, order) ==
    /\ calls < MaxCalls
    /\ MoveFits(tree, srcDir, destDir)
    /\ LET r == moveDirectoryResult(tree, srcDir, destDir, order)
       IN /\ tree' = r.tree
          /\ lastOp' = [name |-> "moveDirectory", srcDir |-> srcDir,
                        destDir |-> destDir, order |-> order,
                        ret |-> r.ret, raised |-> r.raised]
    /\ calls' = calls + 1
    /\ UNCHANGED notTreeVars

\* moveDirectoryFiles, lines 692-731
moveDirectoryFiles(srcDir, destDir, order) ==
    /\ calls < MaxCalls
    /\ MoveFits(tree, srcDir, destDir)
    /\ LET r == moveDirectoryFilesResult(tree, srcDir, destDir, order)
       IN /\ tree' = r.tree
          /\ lastOp' = [name |-> "moveDirectoryFiles", srcDir |-> srcDir,
                        destDir |-> destDir, order |-> order,
                        ret |-> r.ret, raised |-> r.raised]
    /\ calls' = calls + 1
    /\ UNCHANGED notTreeVars

NextTree ==
    \/ \E pathName \in CreatePathArgs : createPath(pathName)
    \/ \E path \in PathArgs : deletePath(path)
    \/ \E filename \in FileNameArgs, file_text \in TextArgs,
          encode_codec \in CodecArgs : writeTo(filename, file_text, encode_codec)
    \/ \E sd \in PathPairs : copyFile(sd[1], sd[2])
    \/ \E sd \in PathPairs, recursive \in BOOLEAN, v \in BOOLEAN, order \in Orders :
          copyDirectory(sd[1], sd[2], recursive, v, order)
    \/ \E sd \in PathPairs, v \in BOOLEAN, order \in Orders :
          copyFolder(sd[1], sd[2], v, order)
    \/ \E sd \in PathPairs, order \in Orders : moveDirectory(sd[1], sd[2], order)
    \/ \E sd \in PathPairs, order \in Orders : moveDirectoryFiles(sd[1], sd[2], order)

SpecTree == InitTree /\ [][NextTree]_vars

----------------------------------------------------------------------------
(* setMp3Metadata and getMp3Metadata: the ID3 frames of one mp3 file       *)
(*                                                                         *)
(* A text is a sequence of characters.  tags maps every frame id to the    *)
(* text of that frame in the file, or to NoFrame.  The calls are made      *)
(* without an image path.                                                  *)

NoFrame == <<"absent">>

\* the keys setMp3Metadata recognizes, in the order of lines 206-222
Keys ==
    <<"artist", "album", "title", "track_number", "year", "genre", "comment",
      "lyrics", "publisher", "composer", "conductor", "performer", "copyright",
      "encoded_by", "encoder", "isrc", "bpm">>

KeySet == {Keys[i] : i \in 1..Len(Keys)}

\* lines 206-222: the frame each key is saved as; 'publisher' is stored in a
\* TPE2 frame (under the key 'TPUB'), 'encoded_by' and 'encoder' both in TENC
FrameOf(key) ==
    CASE key = "artist" -> "TPE1"
      [] key = "album" -> "TALB"
      [] key = "title" -> "TIT2"
      [] key = "track_number" -> "TRCK"
      [] key = "year" -> "TDRC"
      [] key = "genre" -> "TCON"
      [] key = "comment" -> "COMM"
      [] key = "lyrics" -> "USLT"
      [] key = "publisher" -> "TPE2"
      [] key = "composer" -> "TCOM"
      [] key = "conductor" -> "TPE3"
      [] key = "performer" -> "TPE4"
      [] key = "copyright" -> "TCOP"
      [] key = "encoded_by" -> "TENC"
      [] key = "encoder" -> "TENC"
      [] key = "isrc" -> "TSRC"
      [] key = "bpm" -> "TBPM"

FrameIds == {FrameOf(k) : k \in KeySet}

\* the keys getMp3Metadata returns, lines 83-99, with the frame it reads
ReadKeys == {"artist", "album", "title", "track_number", "year", "genre"}

\* lines 83-99: the value of a key whose frame is absent
DefaultOf(key) ==
    CASE key = "artist" -> <<"Unknown Artist">>
      [] key = "album" -> <<"Unknown Album">>
      [] key = "title" -> <<"basename">>
      [] key = "track_number" -> <<"0">>
      [] key = "year" -> <<"Unknown Year">>
      [] key = "genre" -> <<"Unknown Genre">>

\* a TDRC frame keeps a time stamp: a year of digits is read back as four
\* digits, zeros in front
RECURSIVE TimeStamp(_)
TimeStamp(text) == IF Len(text) >= 4 THEN text ELSE TimeStamp(<<"0">> \o text)

\* the text a frame holds after text was saved in it
StoredText(frame, text) == IF frame = "TDRC" THEN TimeStamp(text) ELSE text

\* lines 206-222, from the i-th key on: every key that is present and not
\* empty is put into its frame, a later key replacing an earlier one
RECURSIVE SetFrames(_, _, _)
SetFrames(frames, metadata, i) ==
    IF i > Len(Keys) THEN frames
    ELSE LET key == Keys[i]
         IN SetFrames(IF key \in DOMAIN metadata /\ metadata[key] # <<>>
                      THEN [frames EXCEPT ![FrameOf(key)] =
                                StoredText(FrameOf(key), metadata[key])]
                      ELSE frames,
                      metadata, i + 1)

\* setMp3Metadata, lines 198-246: the frames of the file after audio.save
setMp3MetadataResult(frames, metadata) == SetFrames(frames, metadata, 1)

\* getMp3Metadata, lines 78-124: six keys, each from its frame or defaulted
getMp3MetadataResult(frames) ==
    [key \in ReadKeys |->
        IF frames[FrameOf(key)] # NoFrame THEN frames[FrameOf(key)]
        ELSE DefaultOf(key)]

----------------------------------------------------------------------------
(* SpecMp3: calls of setMp3Metadata and getMp3Metadata on one file *)

Texts == {<<"p">>, <<"q">>, <<"r">>}
Years == {<<"2", "0", "2", "0">>, <<"9", "9">>}

\* a record with all recognized keys populated
FullRecord(text, year, encoder) ==
    [key \in KeySet |-> IF key = "year" THEN year
                        ELSE IF key = "encoder" THEN encoder
                        ELSE text]

\* a record with the six keys of the docstring, the title left empty or not
BasicRecord(text, year, title) ==
    [key \in ReadKeys |-> IF key = "year" THEN year
                          ELSE IF key = "title" THEN title
                          ELSE text]

MetadataChoices ==
    {FullRecord(t, y, e) : t \in Texts, y \in Years, e \in Texts}
    \cup {BasicRecord(t, y, title) : t \in Texts, y \in Years, title \in {<<>>, <<"p">>}}

InitMp3 ==
    /\ DlIdle
    /\ GeoIdle
    /\ DbIdle
    /\ FsIdle
    /\ TreeIdle
    /\ tags \in {[f \in FrameIds |-> NoFrame],
                 [f \in FrameIds |-> IF f = "TPE1" THEN <<"o">> ELSE NoFrame]}
    /\ lastOp = NoOp

\* setMp3Metadata, lines 184-250
setMp3Metadata(metadata) ==
    /\ tags' = setMp3MetadataResult(tags, metadata)
    /\ lastOp' = [name |-> "setMp3Metadata", metadata |-> metadata,
                  ret |-> "True", raised |-> FALSE]
    /\ UNCHANGED notMp3Vars

\* getMp3Metadata, lines 72-124
getMp3Metadata ==
    /\ lastOp' = [name |-> "getMp3Metadata",
                  ret |-> getMp3MetadataResult(tags), raised |-> FALSE]
    /\ UNCHANGED <<tags, notMp3Vars>>

NextMp3 ==
    \/ \E metadata \in MetadataChoices : setMp3Metadata(metadata)
    \/ getMp3Metadata

SpecMp3 == InitMp3 /\ [][NextMp3]_vars

----------------------------------------------------------------------------
(* calculateTimeseriesStats: the NSE of an observed and a simulated series *)
(*                                                                         *)
(* The series hold floating-point numbers.  The model keeps the binary     *)
(* format and its rounding (to nearest, ties to even) with MantissaBits    *)
(* significant bits in place of the 53 of a float64.  A number is written  *)
(* as an integer; NaN is a value of its own, which no series number and   *)
(* no result of the arithmetic on valid rows is equal to.                  *)

\* numpy.nan as it stands in a series (the numbers of a series are positive)
NaN == 0 - 1

\* 2 to the power k
RECURSIVE Pow2(_)
Pow2(k) == IF k = 0 THEN 1 ELSE 2 * Pow2(k - 1)

\* the distance between neighbouring numbers of the format around num/den
RECURSIVE Spacing(_, _, _)
Spacing(num, den, s) ==
    IF num < den * s * Pow2(MantissaBits) THEN s ELSE Spacing(num, den, 2 * s)

\* num/den (num >= 0, den > 0) rounded to the format
RoundToFormat(num, den) ==
    LET s == Spacing(num, den, 1)
        k == num \div (den * s)
        twiceRest == 2 * (num - (k * den * s))
    IN IF twiceRest < den * s THEN k * s
       ELSE IF twiceRest > den * s THEN (k + 1) * s
       ELSE IF k % 2 = 0 THEN k * s ELSE (k + 1) * s

\* a result of either sign rounded to the format
Rounded(num, den) ==
    IF num >= 0 THEN RoundToFormat(num, den) ELSE 0 - RoundToFormat(0 - num, den)

\* numpy.sum over xs[1..n]: the running total is rounded after every addition
RECURSIVE FloatSum(_, _)
FloatSum(xs, n) ==
    IF n = 0 THEN 0 ELSE Rounded(FloatSum(xs, n - 1) + xs[n], 1)

\* numpy.mean
FloatMean(xs) == Rounded(FloatSum(xs, Len(xs)), Len(xs))

\* (xs - ys) ** 2, element by element
SquaredDifferences(xs, ys) ==
    [i \in 1..Len(xs) |->
        LET d == Rounded(xs[i] - ys[i], 1) IN Rounded(d * d, 1)]

\* lines 1382-1384: the rows in which neither value is NaN
RECURSIVE ValidRows(_, _, _)
ValidRows(obs, sim, i) ==
    IF i > Len(obs) THEN <<>>
    ELSE IF obs[i] = NaN \/ sim[i] = NaN THEN ValidRows(obs, sim, i + 1)
    ELSE <<i>> \o ValidRows(obs, sim, i + 1)

\* line 1392: numpy.sum((obs - numpy.mean(obs)) ** 2)
NseDenominator(obs) ==
    LET mean == FloatMean(obs)
    IN FloatSum(SquaredDifferences(obs, [i \in 1..Len(obs) |-> mean]), Len(obs))

\* line 1393: numpy.sum((obs - sim) ** 2)
NseNumerator(obs, sim) == FloatSum(SquaredDifferences(obs, sim), Len(obs))

\* line 1393: NSE is NaN exactly when the denominator compares equal to 0;
\* otherwise it is 1 - numerator / denominator, a number
Nse(obs, sim) ==
    IF NseDenominator(obs) # 0
    THEN [nan |-> FALSE, numerator |-> NseNumerator(obs, sim),
          denominator |-> NseDenominator(obs)]
    ELSE [nan |-> TRUE, numerator |-> NseNumerator(obs, sim), denominator |-> 0]

\* calculateTimeseriesStats, lines 1377-1454, with both column names given
\* and no resampling: ValueError when no row is left, else the NSE field of
\* the record returned
calculateTimeseriesStatsResult(obs, sim) ==
    LET rows == ValidRows(obs, sim, 1)
        o == [j \in 1..Len(rows) |-> obs[rows[j]]]
        s == [j \in 1..Len(rows) |-> sim[rows[j]]]
    IN IF rows = <<>> THEN [raised |-> TRUE, NSE |-> [nan |-> TRUE]]
       ELSE [raised |-> FALSE, NSE |-> Nse(o, s)]

----------------------------------------------------------------------------
(* SpecStats: calls of calculateTimeseriesStats *)

\* the numbers of the series: the format's numbers from 2^(MantissaBits-1)
\* up to 2^MantissaBits - 1, all with spacing 1
Numbers == Pow2(MantissaBits - 1)..(Pow2(MantissaBits) - 1)

\* the observed values of the data frame
ObservedValues == {Pow2(MantissaBits - 1), Pow2(MantissaBits) - 2, NaN}

\* the simulated values of the data frame
SimulatedValues == {Pow2(MantissaBits - 1), Pow2(MantissaBits) - 1, NaN}

InitStats ==
    /\ DlIdle
    /\ GeoIdle
    /\ DbIdle
    /\ FsIdle
    /\ TreeIdle
    /\ Mp3Idle
    /\ lastOp = NoOp

\* calculateTimeseriesStats, lines 1313-1454
calculateTimeseriesStats(obs, sim) ==
    /\ LET r == calculateTimeseriesStatsResult(obs, sim)
       IN lastOp' = [name |-> "calculateTimeseriesStats", obs |-> obs,
                     sim |-> sim, raised |-> r.raised, NSE |-> r.NSE]
    /\ UNCHANGED notLogVars

NextStats ==
    \E n \in 1..MaxSeries :
    \E obs \in [1..n -> ObservedValues], sim \in [1..n -> SimulatedValues] :
        calculateTimeseriesStats(obs, sim)

SpecStats == InitStats /\ [][NextStats]_vars

----------------------------------------------------------------------------
(* createGrid: the grid over the bounds of a boundary layer                *)
(*                                                                         *)
(* A layer is a coordinate reference system and a set of boxes             *)
(* <<x0, y0, x1, y1>> in its coordinates.  There are two systems: the      *)
(* geographic EPSG:4326, in degrees, and a projected one, whose            *)
(* coordinates are UnitsPerDegree times the degrees.                       *)

Geographic == "EPSG:4326"
Projected == "EPSG:3857"
CrsCodes == {Geographic, Projected}

\* one coordinate taken from a system to another
ToCrsCoord(x, from, to) ==
    IF from = to THEN x
    ELSE IF to = Geographic THEN x \div UnitsPerDegree
    ELSE x * UnitsPerDegree

\* GeoDataFrame.to_crs: every geometry of the layer in the other system
to_crs(layer, epsg) ==
    [crs |-> epsg,
     cells |-> {[k \in 1..4 |-> ToCrsCoord(b[k], layer.crs, epsg)] : b \in layer.cells}]

SetMin(S) == CHOOSE x \in S : \A y \in S : x <= y
SetMax(S) == CHOOSE x \in S : \A y \in S : y <= x

\* GeoDataFrame.total_bounds: minx, miny, maxx, maxy
total_bounds(layer) ==
    <<SetMin({b[1] : b \in layer.cells}), SetMin({b[2] : b \in layer.cells}),
      SetMax({b[3] : b \in layer.cells}), SetMax({b[4] : b \in layer.cells})>>

\* numpy.arange(lo, hi, step)
arange(lo, hi, step) == {lo + (k * step) : k \in 0..(Ceil(hi - lo, step) - 1)}

\* lines 900-917: one box of side resolution per point of the mesh
GridCells(bounds, resolution) ==
    {<<x, y, x + resolution, y + resolution>> :
        x \in arange(bounds[1], bounds[3], resolution),
        y \in arange(bounds[2], bounds[4], resolution)}

NoLayer == [crs |-> "none", cells |-> {}]

GridName == "generatedGrid.gpkg"
Grid4326Name == "generatedGrid4326.gpkg"

\* the working directory without the two files
NoGridFiles == [f \in {GridName, Grid4326Name} |-> NoLayer]

\* lines 891-894: the layer the grid is built on
WorkingLayer(boundary, useDegree) ==
    IF useDegree THEN to_crs(boundary, Geographic) ELSE boundary

\* createGrid, lines 891-933: the two files the call writes
createGridFiles(boundary, resolution, useDegree) ==
    LET gdf == WorkingLayer(boundary, useDegree)
        grid_gdf == [crs |-> gdf.crs,
                     cells |-> GridCells(total_bounds(gdf), resolution)]
        reprojectedGrid == to_crs(grid_gdf, Geographic)
    IN [f \in {GridName, Grid4326Name} |->
           IF f = Grid4326Name THEN grid_gdf ELSE reprojectedGrid]

----------------------------------------------------------------------------
(* SpecGrid: calls of createGrid in one working directory *)

\* a boundary given in degrees, as a layer of the system crs
BoundaryLayer(crs, box) ==
    [crs |-> crs, cells |-> {[k \in 1..4 |-> ToCrsCoord(box[k], Geographic, crs)]}]

\* the boundary layers: a rectangle in either system
Boundaries ==
    {BoundaryLayer(crs, <<x, y, x + w, y + h>>) :
        crs \in CrsCodes, x \in 0..1, y \in 0..1, w \in 1..MaxExtent, h \in 1..MaxExtent}

\* the resolutions: one or two degrees, in the units of the working layer
Resolutions(boundary, useDegree) ==
    {ToCrsCoord(r, Geographic, WorkingLayer(boundary, useDegree).crs) : r \in 1..2}

InitGrid ==
    /\ DlIdle
    /\ DbIdle
    /\ FsIdle
    /\ TreeIdle
    /\ Mp3Idle
    /\ gridFiles = NoGridFiles
    /\ ncFiles = <<>>
    /\ lastOp = NoOp

\* createGrid, lines 881-935
createGrid(boundary, resolution, useDegree) ==
    /\ gridFiles' = createGridFiles(boundary, resolution, useDegree)
    /\ lastOp' = [name |-> "createGrid", boundary |-> boundary,
                  resolution |-> resolution, useDegree |-> useDegree,
                  ret_crs |-> WorkingLayer(boundary, useDegree).crs]
    /\ UNCHANGED <<ncFiles, notGeoVars>>

NextGrid ==
    \E boundary \in Boundaries, useDegree \in BOOLEAN :
    \E resolution \in Resolutions(boundary, useDegree) :
        createGrid(boundary, resolution, useDegree)

SpecGrid == InitGrid /\ [][NextGrid]_vars

----------------------------------------------------------------------------
(* renameNetCDFvariable: the files at input_file and output_file           *)
(*                                                                         *)
(* A NetCDF file is the sequence of the names of its variables; a name is  *)
(* a sequence of characters.                                               *)

NoNc == [exists |-> FALSE, names |-> <<>>]

\* the variable names of the files and of the calls: 'ta', 'tas', 'p'
VarNames == {<<"t", "a">>, <<"t", "a", "s">>, <<"p">>}

\* 'cdo showname': the names on one line, a blank before each
RECURSIVE showname(_)
showname(names) ==
    IF names = <<>> THEN <<"\n">>
    ELSE <<" ">> \o Head(names) \o showname(Tail(names))

\* Python's 'sub in str' on strings
IsSubstring(sub, str) ==
    \E i \in 0..(Len(str) - Len(sub)) : SubSeq(str, i + 1, i + Len(sub)) = sub

\* 'cdo chname,old,new': the variables named old get the name new
chname(names, old_var_name, new_var_name) ==
    [i \in 1..Len(names) |-> IF names[i] = old_var_name THEN new_var_name ELSE names[i]]

\* renameNetCDFvariable, lines 621-646: what the call runs and the files it
\* leaves; 'cdo showname' fails on a missing input and the error is printed
renameNetCDFvariableResult(nc, old_var_name, new_var_name) ==
    IF ~nc.input.exists THEN [files |-> nc, ran |-> "none"]
    ELSE IF IsSubstring(old_var_name, showname(nc.input.names))
    THEN [files |-> [nc EXCEPT !.output =
                        [exists |-> TRUE,
                         names |-> chname(nc.input.names, old_var_name, new_var_name)]],
          ran |-> "chname"]
    ELSE [files |-> [input |-> NoNc, output |-> nc.input], ran |-> "move"]

----------------------------------------------------------------------------
(* SpecNc: calls of renameNetCDFvariable on one pair of paths *)

\* the input files a run starts from: up to MaxVars different variables
StartFiles ==
    {NoNc} \cup
    {[exists |-> TRUE, names |-> names] :
        names \in {s \in UNION {[1..n -> VarNames] : n \in 1..MaxVars} :
                      \A i, j \in DOMAIN s : i # j => s[i] # s[j]}}

\* the new names given to the calls
NewNames == {<<"n">>, <<"m">>, <<"p">>}

InitNc ==
    /\ DlIdle
    /\ DbIdle
    /\ FsIdle
    /\ TreeIdle
    /\ Mp3Idle
    /\ gridFiles = <<>>
    /\ \E f \in StartFiles : ncFiles = [input |-> f, output |-> NoNc]
    /\ lastOp = NoOp

\* renameNetCDFvariable, lines 610-642
renameNetCDFvariable(old_var_name, new_var_name) ==
    /\ LET r == renameNetCDFvariableResult(ncFiles, old_var_name, new_var_name)
       IN /\ ncFiles' = r.files
          /\ lastOp' = [name |-> "renameNetCDFvariable",
                        old_var_name |-> old_var_name,
                        new_var_name |-> new_var_name, ran |-> r.ran]
    /\ UNCHANGED <<gridFiles, notGeoVars>>

NextNc ==
    \E old_var_name \in VarNames, new_var_name \in NewNames :
        renameNetCDFvariable(old_var_name, new_var_name)

SpecNc == InitNc /\ [][NextNc]_vars

----------------------------------------------------------------------------
(* Claims about downloadFile, checked under SpecDownload *)

PartsLeft == {i \in Workers : i < num_connections /\ parts[i].exists}

\* C1: with exists_action = 'overwrite', a download that ran to its end leaves
\* a destination file of exactly file_size bytes and no part file 0..n-1.
C1_OverwriteExactSize ==
    (pc = "merged" /\ exists_action = "overwrite")
        => /\ files[fname].exists
           /\ Len(files[fname].data) = file_size
           /\ PartsLeft = {}

\* C2: once every worker has written its whole range and the polling loop
\* has sampled the final part sizes, the loop condition is false, so the
\* loop ends and downloadFile goes on to return.
C2_PollingLoopEnds ==
    (pc = "poll" /\ AllWorkersDone /\ completed = SumSizes(parts, num_connections))
        => completed >= file_size

RECURSIVE SizeBefore(_, _)
SizeBefore(ps, i) ==
    IF i = 0 THEN 0 ELSE SizeBefore(ps, i - 1) + Len(ps[i - 1].data)

\* C4: the merge step leaves in the destination the previous bytes of the
\* destination (only when initial_pos > 0), then the bytes of part 0, then of
\* part 1, ... up to part n-1, and nothing else; every merged part file is
\* deleted.
C4_MergeConcatenatesInOrder ==
    [][(pc = "join" /\ pc' = "merged")
          => LET n      == num_connections
                 prefix == IF initial_pos > 0 THEN files[fname].data ELSE <<>>
                 final  == files'[fname].data
             IN /\ files'[fname].exists
                /\ Len(final) = Len(prefix) + SizeBefore(parts, n)
                /\ \A j \in 1..Len(prefix) : final[j] = prefix[j]
                /\ \A i \in 0..(n - 1) : \A j \in 1..Len(parts[i].data) :
                      final[Len(prefix) + SizeBefore(parts, i) + j] = parts[i].data[j]
                /\ \A i \in 0..(n - 1) : ~parts'[i].exists]_vars

C4_Witness ==
    /\ pc = "merged"
    /\ initial_pos > 0
    /\ num_connections > 1
    /\ Len(files[fname].data) > initial_pos + 1

----------------------------------------------------------------------------
(* Claims about sqliteConnection, checked under SpecDb *)

KeysOf(data, k) == {data[i][k] : i \in 1..Len(data)}

HaveKey(data, k) == \A i \in 1..Len(data) : k \in DOMAIN data[i]

DistinctKeys(data, k) ==
    \A i, j \in 1..Len(data) : i # j => data[i][k] # data[j][k]

\* a value is None or of the storage class the declared type names
IsOfType(type, v) ==
    \/ v = "null"
    \/ type = "INTEGER" /\ v \in {"i1", "i2"}
    \/ type = "TEXT" /\ v \in {"t1", "t2", "ta"}

\* the row mapping names every column and gives each a value of its type
FullTypedRow(schema, row) ==
    /\ DOMAIN row = ColNames(schema)
    /\ \A c \in DOMAIN row : IsOfType(ColType(schema, c), row[c])

\* what readTableAsDict(table, k) returns after insertDict(table, data): the
\* entries it returned before, and one entry per row of data, under the row's
\* key value, equal to the row mapping
ReadBackEqualsInserted(data, k) ==
    LET before == readTableAsDict(view, k)
        after  == readTableAsDict(view', k)
    IN /\ DOMAIN after = DOMAIN before \cup KeysOf(data, k)
       /\ \A kk \in DOMAIN before : after[kk] = before[kk]
       /\ \A i \in 1..Len(data) : after[data[i][k]] = data[i]

InsertDictOfNewKeys(k) ==
    /\ lastOp'.name = "insertDict"
    /\ ~lastOp'.raised
    /\ view.exists
    /\ k \in ColNames(view.schema)
    /\ HaveKey(lastOp'.data, k)
    /\ DistinctKeys(lastOp'.data, k)
    /\ KeysOf(lastOp'.data, k) \cap DOMAIN readTableAsDict(view, k) = {}

\* C5 (as stated): after insertDict of rows with pairwise distinct key values,
\* readTableAsDict returns exactly one entry per inserted row, keyed by the
\* row's key value and equal to the inserted row mapping.
C5_ReadBackAnyRows ==
    [][\A k \in {"id", "name"} :
          InsertDictOfNewKeys(k) => ReadBackEqualsInserted(lastOp'.data, k)]_vars

\* C5 (amended): the same, for rows that give every column of the table a
\* value of the column's declared type or None.
C5_ReadBackFullTypedRows ==
    [][\A k \in {"id", "name"} :
          (/\ InsertDictOfNewKeys(k)
           /\ \A i \in 1..Len(lastOp'.data) : FullTypedRow(view.schema, lastOp'.data[i]))
             => ReadBackEqualsInserted(lastOp'.data, k)]_vars

C5_Witness ==
    /\ lastOp.name = "insertDict"
    /\ ~lastOp.raised
    /\ lastOp.data = <<RowA, RowB>>
    /\ DOMAIN readTableAsDict(view, "id") = {"i1", "i2"}
    /\ readTableAsDict(view, "id")["i2"] = RowB

\* C6: updateValue sets col_name to new_value (as the column stores it) in
\* every row whose col_where1 equals val_1 (SQL equality: NULL equals
\* nothing) and changes nothing else: other rows and other columns keep
\* their values, no row is added or removed, the schema stays.
C6_UpdateChangesOnlyMatched ==
    [][(lastOp'.name = "updateValue" /\ ~lastOp'.raised)
          => LET c  == ColIndex(view.schema, lastOp'.col_name)
                 w  == ColIndex(view.schema, lastOp'.col_where1)
                 matched(i) ==
                     /\ view.rows[i][w] # "null"
                     /\ lastOp'.val_1 # "null"
                     /\ view.rows[i][w] = Store(view.schema[w].type, lastOp'.val_1)
             IN /\ view'.exists /\ view'.schema = view.schema
                /\ Len(view'.rows) = Len(view.rows)
                /\ \A i \in 1..Len(view.rows) :
                      /\ ~matched(i) => view'.rows[i] = view.rows[i]
                      /\ matched(i) =>
                            /\ view'.rows[i][c] = Store(view.schema[c].type, lastOp'.new_value)
                            /\ \A j \in 1..Len(view.schema) :
                                  j # c => view'.rows[i][j] = view.rows[i][j]]_vars

C6_Witness ==
    /\ lastOp.name = "updateValue"
    /\ ~lastOp.raised
    /\ lastOp.rowcount = 1
    /\ Len(view.rows) = 2
    /\ \E i \in 1..2 : view.rows[i][2] = "t2"
    /\ \E i \in 1..2 : view.rows[i][2] # "t2"

\* C7: closeConnection(commit=True) leaves in the file the database as the
\* helper saw it just before the call; closeConnection(commit=False) leaves
\* the file as it was last committed.
C7_CloseCommitsByDefault ==
    [][lastOp'.name = "closeConnection"
          => /\ conn' = "closed"
             /\ lastOp'.commit => committed' = view
             /\ ~lastOp'.commit => committed' = committed]_vars

C7_Witness ==
    /\ lastOp.name = "closeConnection"
    /\ lastOp.commit
    /\ lastOp.pending
    /\ lastOp.saved
    /\ conn = "closed"
    /\ Len(committed.rows) > 0

----------------------------------------------------------------------------
(* Claims about listFiles and deleteFile, checked under SpecFs *)

\* C9: for every extension name e and every path, listFiles returns the same
\* set of files for the spellings 'e', '.e', '*e' and '*.e'.
C9_SpellingsAgree ==
    \A e \in ExtNames : \A path \in Paths : \A spelling \in Spellings(e) :
        listFilesResult(entries, path, spelling) = listFilesResult(entries, path, e)

C9_Witness ==
    /\ lastOp.name = "listFiles"
    /\ lastOp.path = "dir"
    /\ lastOp.ext = <<"*", ".", "t">>
    /\ lastOp.ret = {NameAT}
    /\ entries[NameAt] = "file"
    /\ entries[NameBXT] = "file"

\* C10: deleteFile on a path that does not exist returns False, raises
\* nothing and changes nothing; on a file that can be removed it returns True
\* and leaves the path absent, every other entry as it was.
C10_DeleteFileResult ==
    [][lastOp'.name = "deleteFile"
          => LET p == lastOp'.filePath
             IN /\ ~lastOp'.raised
                /\ entries[p] = "absent" => (~lastOp'.ret /\ entries' = entries)
                /\ entries[p] = "file" =>
                      /\ lastOp'.ret
                      /\ entries'[p] = "absent"
                      /\ \A q \in Names : q # p => entries'[q] = entries[q]]_vars

C10_Witness ==
    /\ lastOp.name = "deleteFile"
    /\ lastOp.ret
    /\ entries[lastOp.filePath] = "absent"

----------------------------------------------------------------------------
(* More claims about downloadFile, checked under SpecDownload *)

Started == pc \in {"poll", "join", "merged"}

\* C18: the byte ranges computed for the connections each have
\* start <= end, are pairwise disjoint, and together cover exactly the bytes
\* initial_pos .. file_size - 1.
C18_RangesPartitionRemainder ==
    Started =>
        LET n == num_connections
        IN /\ \A i \in 1..n : chunks[i].start <= chunks[i].end
           /\ \A i, j \in 1..n :
                 i # j => \/ chunks[i].end < chunks[j].start
                          \/ chunks[j].end < chunks[i].start
           /\ \A b \in initial_pos..(file_size - 1) :
                 \E i \in 1..n : chunks[i].start <= b /\ b <= chunks[i].end
           /\ \A i \in 1..n : \A b \in chunks[i].start..chunks[i].end :
                 initial_pos <= b /\ b <= file_size - 1

\* C19: every increment the polling loop hands to the progress meter is
\* >= 0, also when the download resumes from initial_pos > 0.
C19_ProgressNeverDecreases ==
    [][Poll => PbarUpdate(parts, num_connections, completed) >= 0]_vars

EveryWorkerFinished ==
    \A i \in Workers : i < num_connections => wpc[i] = "done"

Running == {i \in Workers : wpc[i] \in {"queued", "open", "write"}}

\* C20: under every interleaving, part i is written by worker i alone and a
\* step of worker j touches no other part; never more than num_connections
\* workers run; the merge reads and deletes part files only after every
\* worker has finished.
C20_WorkersDisjointMergeLast ==
    [][/\ \A j \in Workers :
             wpc'[j] # wpc[j] =>
                 \A i \in Workers \ {j} : parts'[i] = parts[i]
       /\ \A i \in Workers :
             parts'[i] # parts[i] =>
                 \/ wpc[i] \in {"open", "write"} /\ pc' = pc
                 \/ pc = "join" /\ pc' = "merged" /\ EveryWorkerFinished
       /\ Cardinality(Running) <= num_connections
       /\ \A i \in Workers : i >= num_connections => wpc[i] = "none"
       /\ (Started /\ files' # files) =>
             pc = "join" /\ pc' = "merged" /\ EveryWorkerFinished]_vars

C20_Witness ==
    /\ pc = "merged"
    /\ num_connections >= 2
    /\ EveryWorkerFinished
    /\ Len(files[fname].data) >= 2
    /\ getCount = num_connections

----------------------------------------------------------------------------
(* Claims about the path helpers, checked under SpecTree *)

\* C11: deletePath returns a success boolean: True when the directory tree
\* existed and was removed, False when the path does not exist or could not
\* be removed.
C11_DeletePathReturnsBool ==
    [][lastOp'.name = "deletePath"
          => /\ lastOp'.ret \in {"True", "False"}
             /\ lastOp'.ret = "True" <=> (isdir(tree, lastOp'.path)
                                           /\ ~exists(tree', lastOp'.path))]_vars

\* pathName without one trailing '\'
WithoutBackslash(str) == IF EndsWith(str, "\\") THEN DropLast(str) ELSE str

\* C12: after createPath(pathName) the directory exists, the returned path
\* has no trailing slash, and createPath of the returned value returns that
\* same value and changes nothing.
C12_CreatePathNormalizes ==
    [][(lastOp'.name = "createPath" /\ ~lastOp'.raised)
          => LET again == createPathResult(tree', lastOp'.ret)
             IN /\ lastOp'.pathName # <<>>
                      => isdir(tree', WithoutBackslash(lastOp'.pathName))
                /\ ~EndsWith(lastOp'.ret, "/")
                /\ ~again.raised
                /\ again.ret = lastOp'.ret
                /\ again.tree = tree']_vars

\* the source argument of a delete, copy or move call
SourceOf(op) ==
    IF op.name = "deletePath" THEN op.path
    ELSE IF op.name \in {"copyFile", "copyDirectory"} THEN op.source
    ELSE op.srcDir

\* C13: deletePath, copyFile, copyDirectory, moveDirectory and
\* moveDirectoryFiles, called with a source path that does not exist, raise
\* nothing and leave the tree as it was (deleteFile: see C10).
C13_MissingSourceIsNoOp ==
    [][(/\ lastOp'.name \in {"deletePath", "copyFile", "copyDirectory",
                              "moveDirectory", "moveDirectoryFiles"}
        /\ ~exists(tree, SourceOf(lastOp')))
          => (~lastOp'.raised /\ tree' = tree)]_vars

\* C14: for a filename whose parent directory does not exist yet (and can
\* be made), writeTo makes the directory, writes all the lines and returns
\* True.
C14_WriteToMakesDirectoryFirst ==
    [][(/\ lastOp'.name = "writeTo"
        /\ ~exists(tree, Dirname(lastOp'.filename))
        /\ ~makedirs(tree, Dirname(lastOp'.filename), FALSE).raised)
          => /\ lastOp'.ret = "True"
             /\ isdir(tree', Dirname(lastOp'.filename))
             /\ tree'[Comps(lastOp'.filename)]
                   = FileNode(EncodedText(lastOp'.file_text,
                                          lastOp'.encode_codec))]_vars

\* C17: copyFolder(source, destination, v) leaves the tree as
\* copyDirectory(source, destination, v = v) does: a recursive copy, whatever
\* v is.
C17_CopyFolderIsCopyDirectory ==
    [][lastOp'.name = "copyFolder"
          => tree' = copyDirectoryResult(tree, lastOp'.source,
                                         lastOp'.destination, TRUE, lastOp'.v,
                                         lastOp'.order).tree]_vars

----------------------------------------------------------------------------
(* Claims about the MP3 tag helpers, checked under SpecMp3 *)

AllKeysPopulated(metadata) ==
    /\ DOMAIN metadata = KeySet
    /\ \A key \in KeySet : metadata[key] # <<>>

\* C15: when setMp3Metadata has written a record with all recognized keys
\* populated, getMp3Metadata on the same file returns every one of those
\* keys with the value that was written.
C15_Mp3RoundTrip ==
    [][(/\ lastOp.name = "setMp3Metadata"
        /\ lastOp'.name = "getMp3Metadata"
        /\ AllKeysPopulated(lastOp.metadata))
          => \A key \in KeySet :
                /\ key \in DOMAIN lastOp'.ret
                /\ lastOp'.ret[key] = lastOp.metadata[key]]_vars

----------------------------------------------------------------------------
(* Claims about calculateTimeseriesStats, checked under SpecStats *)

\* the values of a series are all one and the same number
AllEqual(xs) == \A i \in 1..Len(xs) : xs[i] # NaN /\ xs[i] = xs[1]

\* C16: for a non-empty observed series whose values are all equal and any
\* simulated series of the same length, calculateTimeseriesStats raises no
\* exception and the NSE field of the record it returns is NaN.
C16_FlatObservedGivesNaN ==
    (lastOp.name = "calculateTimeseriesStats" /\ AllEqual(lastOp.obs))
        => (~lastOp.raised /\ lastOp.NSE.nan)

----------------------------------------------------------------------------
(* Further claims about downloadFile, checked under SpecDownload *)

\* C21: downloadFile stores the content at save_path (the file SaveBase of
\* the destination directory) and evaluates the existing-file policy against
\* that path: a step of the call changes no other file of the directory, and
\* the call returns under 'skip' exactly when the file at save_path exists.
C21_SavePathIsDestination ==
    [][/\ \A b \in BaseNames : b # SaveBase => files'[b] = files[b]
       /\ downloadFile_skip => files[SaveBase].exists
       /\ (pc = "call" /\ exists_action = "skip" /\ files[SaveBase].exists)
              => pc' = "skipped"]_vars

----------------------------------------------------------------------------
(* Further claims about sqliteConnection, checked under SpecDb *)

\* the step is a call of deleteRows on an existing table
DeleteRowsCalled == lastOp'.name = "deleteRows" /\ conn = "open" /\ view.exists

\* C22: deleteRows(table, col_where, col_where_value) on an existing table
\* removes exactly the rows whose col_where column equals col_where_value,
\* for text and for numbers, and raises nothing; deleteRows(table) removes
\* all rows.
C22_DeleteRowsRemovesMatching ==
    [][DeleteRowsCalled =>
          /\ (lastOp'.col_where = "null" /\ lastOp'.col_where_value = "null")
                => (~lastOp'.raised /\ view'.rows = <<>>)
          /\ (lastOp'.col_where # "null" /\ lastOp'.col_where_value # "null")
                => /\ ~lastOp'.raised
                   /\ view'.rows =
                         RowsKept(view.rows, ColType(view.schema, lastOp'.col_where),
                                  ColIndex(view.schema, lastOp'.col_where),
                                  lastOp'.col_where_value)]_vars

\* C23: insertDictPartial on an existing table raises nothing and inserts
\* exactly one row, holding the values of the keys that are columns of the
\* table, whether some, all or none of the mapping's keys are columns.
C23_PartialInsertDropsUnknownKeys ==
    [][(lastOp'.name = "insertDictPartial" /\ view.exists)
          => /\ ~lastOp'.raised
             /\ view'.rows =
                   Append(view.rows,
                          InsertedTuple(view.schema,
                                        FilteredData(view, lastOp'.data_dict)))]_vars

\* C24: dumpCSV writes the rows readTableColumns returns on the same
\* instance at that moment.
C24_DumpMatchesRead ==
    [][(lastOp'.name = "dumpCSV" /\ view.exists)
          => /\ ~lastOp'.raised
             /\ lastOp'.lines = CsvLines(readTableColumnsResult(view))]_vars

\* C28: insertRow leaves the containers bound to ordered_content_list and
\* dictionary_obj, and the default objects, as they were; a call that omits
\* both arguments inserts no row, whatever earlier calls passed.
C28_InsertRowKeepsDefaults ==
    [][lastOp'.name = "insertRow"
          => /\ defaults' = defaults
             /\ defaults' = NoDefaults
             /\ lastOp'.list_after = lastOp'.list_before
             /\ lastOp'.dict_after = lastOp'.dict_before
             /\ lastOp'.omitted = DefaultedParameters
                   => (~lastOp'.inserted /\ ~lastOp'.raised /\ view' = view)]_vars

C28_Witness ==
    /\ lastOp.name = "insertRow"
    /\ lastOp.omitted = DefaultedParameters
    /\ lastOp.earlier
    /\ ~lastOp.inserted
    /\ Len(view.rows) > 0
    /\ defaults = NoDefaults

\* the calls that end with a commit, and the calls that never commit
CommittingCalls ==
    {"insertDict", "insertDictPartial", "createTableFromDict", "renameTable"}

PendingCalls == {"insertRow", "insertRows", "updateValue", "deleteRows"}

\* C29: a call of insertDict, insertDictPartial, createTableFromDict or
\* renameTable that returns commits everything pending on the connection, so
\* an undoChanges right after it reverts nothing; insertRow, insertRows,
\* updateValue and deleteRows leave the committed database as it was, and an
\* undoChanges after them brings the committed database back.
C29_WhichCallsCommit ==
    [][/\ (lastOp'.name \in CommittingCalls /\ ~lastOp'.raised)
             => (committed' = view' /\ ~inTxn')
       /\ lastOp'.name \in PendingCalls => committed' = committed
       /\ (lastOp'.name = "undoChanges" /\ lastOp.name \in CommittingCalls
              /\ ~lastOp.raised)
             => view' = view
       /\ (lastOp'.name = "undoChanges" /\ lastOp.name \in PendingCalls)
             => (view' = committed /\ committed' = committed)]_vars

C29_Witness ==
    /\ lastOp.name \in {"insertDictPartial", "renameTable"}
    /\ ~lastOp.raised
    /\ lastOp.pending
    /\ committed = view
    /\ ~inTxn

\* C30: deleteRows with exactly one of col_where and col_where_value given
\* ends in an error and leaves the table as it was.
C30_OneArgumentDeletesNothing ==
    [][(lastOp'.name = "deleteRows"
          /\ (lastOp'.col_where = "null") # (lastOp'.col_where_value = "null"))
          => (lastOp'.raised /\ view' = view /\ committed' = committed)]_vars

C30_Witness ==
    /\ lastOp.name = "deleteRows"
    /\ (lastOp.col_where = "null") # (lastOp.col_where_value = "null")
    /\ lastOp.raised
    /\ Len(view.rows) > 0

----------------------------------------------------------------------------
(* Further claims about the path helpers, checked under SpecTree *)

\* node n lies below the directory with components c
Below(c, n) == IsPrefix(c, n) /\ Len(n) > Len(c)

\* the node at the place under d that n has under c
Moved(c, d, n) == d \o SubSeq(n, Len(c) + 1, Len(n))

\* nothing is in the way of a move into destDir: it is absent or empty
NothingAt(t, destDir) ==
    /\ ~isfile(t, destDir)
    /\ \A n \in Nodes : Below(Comps(destDir), n) => t[n].kind = "none"

\* the step is a call of moveDirectoryFiles that returns True and in which
\* no move can fail
MovedAllFiles ==
    /\ lastOp'.name = "moveDirectoryFiles"
    /\ ~lastOp'.raised
    /\ lastOp'.ret = "True"
    /\ NothingAt(tree, lastOp'.destDir)

\* every file that was at srcDir/p is at destDir/p, and srcDir holds no file
FilesArrived(c, d) ==
    /\ \A n \in Nodes :
          (Below(c, n) /\ tree[n].kind = "file")
             => tree'[Moved(c, d, n)] = tree[n]
    /\ \A n \in Nodes : Below(c, n) => tree'[n].kind # "file"

\* no directory without an entry is left below srcDir
NoEmptyFolderLeft(c) ==
    \A n \in Nodes :
        (Below(c, n) /\ tree'[n].kind = "dir")
           => \E m \in Nodes : Below(n, m) /\ tree'[m].kind # "none"

\* C27: after moveDirectoryFiles(srcDir, destDir) returns True with no move
\* error, every file that was at srcDir/p is at destDir/p, srcDir contains
\* no files, and no empty folder remains under srcDir.
C27_MoveLeavesNoEmptyFolder ==
    [][MovedAllFiles
          => /\ FilesArrived(Comps(lastOp'.srcDir), Comps(lastOp'.destDir))
             /\ NoEmptyFolderLeft(Comps(lastOp'.srcDir))]_vars

----------------------------------------------------------------------------
(* Claims about createGrid, checked under SpecGrid *)

\* the grid of the call in its working coordinate system
WorkingGrid(boundary, resolution, useDegree) ==
    [crs |-> IF useDegree THEN Geographic ELSE boundary.crs,
     cells |-> GridCells(total_bounds(WorkingLayer(boundary, useDegree)), resolution)]

\* C25: createGrid writes the grid in its working coordinate system (the
\* boundary's own system when useDegree is False) to 'generatedGrid.gpkg'
\* and the EPSG:4326 reprojection of that grid to 'generatedGrid4326.gpkg'.
C25_GridFilesByName ==
    lastOp.name = "createGrid"
       => LET grid == WorkingGrid(lastOp.boundary, lastOp.resolution, lastOp.useDegree)
          IN /\ gridFiles[GridName] = grid
             /\ gridFiles[Grid4326Name] = to_crs(grid, Geographic)

----------------------------------------------------------------------------
(* Claims about renameNetCDFvariable, checked under SpecNc *)

\* old_var_name is the name of a variable of the file
HasVariable(f, old_var_name) == \E i \in 1..Len(f.names) : f.names[i] = old_var_name

\* C26: on an input file that exists, renameNetCDFvariable runs the rename
\* command exactly when old_var_name is one of the variable names of the
\* file; otherwise the input file is moved unchanged to the output path and
\* no rename is run.
C26_RenameOnlyListedVariable ==
    [][(lastOp'.name = "renameNetCDFvariable" /\ ncFiles.input.exists)
          => /\ (lastOp'.ran = "chname")
                   <=> HasVariable(ncFiles.input, lastOp'.old_var_name)
             /\ ~HasVariable(ncFiles.input, lastOp'.old_var_name)
                   => /\ lastOp'.ran = "move"
                      /\ ncFiles'.output = ncFiles.input
                      /\ ~ncFiles'.input.exists]_vars

====
